---- MODULE Spec2Model ----
(***************************************************************************)
(* Orchestration core of the clone platform: the integration store and     *)
(* its mutex, the training pipeline runner, the disk-backed job and clone  *)
(* stores, and the worker manager.                                         *)
(***************************************************************************)
EXTENDS Integers, Sequences, FiniteSets, TLC

(***************************************************************************)
(* Bounds                                                                  *)
(***************************************************************************)
MaxCalls == 3
MaxJobs == 2
MaxRestarts == 1
MaxStarts == 2
MaxChunks == 2

(***************************************************************************)
(* State                                                                   *)
(***************************************************************************)
\* The integration store.
VARIABLES
    intFile,      \* uploads/integrations.json: cloneId -> list of entries
    intFile0,     \* the file as it was when the process started
    locked,       \* SimpleMutex.locked
    queue,        \* SimpleMutex.queue (the waiting tryAcquire closures)
    calls,        \* the store operations in flight, by call number
    reqOrder,     \* call numbers in the order they called acquire()
    lockOrder,    \* call numbers in the order acquire() resolved for them
    intNow        \* Date.now() as read by the store operations

varsInteg == <<intFile, intFile0, locked, queue, calls, reqOrder, lockOrder,
               intNow>>

\* The job and clone stores.
VARIABLES
    jobs,         \* jobStore: the in-memory map
    jobsFile,     \* uploads/data/jobs.json
    jobsTimer,    \* jobStore: saveTimeout, with the history of its burst
    clones,       \* cloneStore: the in-memory map
    clonesFile,   \* uploads/data/clones.json
    clonesTimer,  \* cloneStore: saveTimeout, with the history of its burst
    boots         \* how many times the server process has been restarted

varsStore == <<jobs, jobsFile, jobsTimer, clones, clonesFile, clonesTimer,
               boots>>

\* The training route and its tables.
VARIABLES
    enableRealTrain, \* process.env.ENABLE_REAL_TRAINING === "true"
    dbJobs,          \* table training_jobs: job id -> row
    dbClones,        \* table clones: clone id -> row
    reqs,            \* POST /api/training handlers, by request number
    pipe,            \* simulateJob / runPipeline invocations, by job id
    started,         \* per job: labels of the stage processes spawned, in order
    exits,           \* per job: exit code of each stage process that closed
    alive,           \* per job: labels of the stage processes now running
    appends          \* appendLogRepo calls made for output chunks, by chunk

varsPipe == <<enableRealTrain, dbJobs, dbClones, reqs, pipe, started, exits,
              alive, appends>>

\* The worker manager.
VARIABLES
    workers,      \* the workers map: clone id -> pid of the record it holds
    recs,         \* the WorkerRecord created for each forked child, by pid
    pidFiles,     \* uploads/pids/worker-<cloneId>.pid: a pid, 0 = no file
    procs,        \* operating-system processes, by pid
    killTimers,   \* pids with a pending SIGKILL timer set by killProcess
    startCalls,   \* startCloneWorker invocations, by call number
    monitoring    \* monitoringInterval is set

varsWorker == <<workers, recs, pidFiles, procs, killTimers, startCalls,
                monitoring>>

vars == <<varsInteg, varsPipe, varsStore, varsWorker>>

(***************************************************************************)
(* Integration store (lib/integrationStore: SimpleMutex, loadStore,        *)
(* saveStore, getIntegrations, upsertIntegration, setIntegrations)         *)
(***************************************************************************)

IntClones == {"c1", "c2"}
IntegrationPlatform == {"telegram", "whatsapp"}
CallIds == 1..MaxCalls

\* upsertIntegration(cloneId, platform, data) as the telegram route calls
\* it: data is {token}, {active} or {}; "undef" stands for an absent field.
UpsertInputs ==
    { [cloneId |-> "c1", platform |-> "telegram",
       data |-> [active |-> "undef", token |-> "tokA"]],
      [cloneId |-> "c1", platform |-> "telegram",
       data |-> [active |-> "true", token |-> "undef"]],
      [cloneId |-> "c1", platform |-> "telegram",
       data |-> [active |-> "undef", token |-> "undef"]],
      [cloneId |-> "c2", platform |-> "whatsapp",
       data |-> [active |-> "false", token |-> "undef"]] }

IntegrationConfig(p, a, t, u) ==
    [platform |-> p, active |-> a, token |-> t, updatedAt |-> u]

\* setIntegrations(cloneId, integrations) inputs.
SetInputs ==
    { [cloneId |-> "c1",
       list |-> <<IntegrationConfig("whatsapp", FALSE, "undef", 0),
                  IntegrationConfig("telegram", FALSE, "tokB", 0)>>],
      [cloneId |-> "c2", list |-> <<>>] }

\* getIntegrations(cloneId) inputs.
GetInputs == {"c1"}

\* Contents the file may have when the process starts.
InitialFiles ==
    { [c \in IntClones |-> <<>>],
      [c \in IntClones |->
          IF c = "c1"
          THEN <<IntegrationConfig("whatsapp", TRUE, "undef", 0),
                 IntegrationConfig("telegram", TRUE, "tok0", 0)>>
          ELSE <<IntegrationConfig("telegram", FALSE, "undef", 0)>>] }

NoCall ==
    [op |-> "none", cloneId |-> "c1", platform |-> "telegram",
     data |-> [active |-> "undef", token |-> "undef"], list |-> <<>>,
     pc |-> "idle", store |-> [c \in IntClones |-> <<>>], ts |-> 0,
     result |-> <<>>, ahead |-> -1]

\* The calls between acquire() resolving and release().
Holders == {i \in CallIds : calls[i].pc \in {"holding", "loaded"}}

\* A find that never matches.
FindPlatformNone(list, platform) == 0

\* record.integrations.find((i) => i.platform === platform): index of the
\* first match, 0 when there is none.
FindPlatform(list, platform) ==
    IF \E i \in 1..Len(list) : list[i].platform = platform
    THEN CHOOSE i \in 1..Len(list) :
            /\ list[i].platform = platform
            /\ \A k \in 1..(i - 1) : list[k].platform # platform
    ELSE 0

\* An upsert that replaces the entry by one built from data alone.
UpsertEntryReplacing(store, cloneId, platform, data, now) ==
    LET record == store[cloneId]
        idx == FindPlatform(record, platform)
        pushed ==
            IntegrationConfig(platform,
                              IF data.active = "undef" THEN FALSE
                              ELSE data.active = "true",
                              data.token, now)
    IN  [store EXCEPT ![cloneId] =
            IF idx # 0 THEN [record EXCEPT ![idx] = pushed]
            ELSE Append(record, pushed)]

\* The body of upsertIntegration between loadStore and saveStore.
UpsertEntry(store, cloneId, platform, data, now) ==
    LET record == store[cloneId]
        idx == FindPlatform(record, platform)
        current == record[idx]
        updated ==
            [current EXCEPT
                !.active = IF data.active = "undef" THEN @
                           ELSE data.active = "true",
                !.token = IF data.token = "undef" THEN @ ELSE data.token,
                !.updatedAt = now]
        pushed ==
            IntegrationConfig(platform,
                              IF data.active = "undef" THEN FALSE
                              ELSE data.active = "true",
                              data.token, now)
    IN  [store EXCEPT ![cloneId] =
            IF idx # 0 THEN [record EXCEPT ![idx] = updated]
            ELSE Append(record, pushed)]

\* The body of setIntegrations between loadStore and saveStore.
SetEntries(store, cloneId, list, now) ==
    [store EXCEPT ![cloneId] =
        [i \in 1..Len(list) |-> [list[i] EXCEPT !.updatedAt = now]]]

\* What an operation writes, given the store it loaded.
Modified(call, store, now) ==
    IF call.op = "upsert"
    THEN UpsertEntry(store, call.cloneId, call.platform, call.data, now)
    ELSE IF call.op = "set"
    THEN SetEntries(store, call.cloneId, call.list, now)
    ELSE store

\* tryAcquire's test: the lock is taken only when it is free.
TryAcquireAlways(isLocked) == TRUE
TryAcquireFree(isLocked) == ~isLocked

\* release(): this.queue.shift() takes the oldest waiter off the queue.
Pop(q) == [next |-> q[Len(q)], rest |-> SubSeq(q, 1, Len(q) - 1)]
Shift(q) == [next |-> Head(q), rest |-> Tail(q)]

\* SimpleMutex.acquire as called by operation i; ahead records how many
\* waiters were queued before it (-1 when the lock was free).
MutexAcquire(i, call) ==
    /\ reqOrder' = Append(reqOrder, i)
    /\ IF TryAcquireFree(locked)
       THEN /\ locked' = TRUE
            /\ queue' = queue
            /\ calls' = [calls EXCEPT ![i] = [call EXCEPT !.pc = "holding"]]
            /\ lockOrder' = Append(lockOrder, i)
       ELSE /\ locked' = locked
            /\ queue' = Append(queue, i)
            /\ calls' = [calls EXCEPT ![i] =
                            [call EXCEPT !.pc = "waiting",
                                         !.ahead = Len(queue)]]
            /\ lockOrder' = lockOrder

\* A release that wakes every waiter instead of the oldest one.
MutexReleaseAll(i, done) ==
    /\ locked' = (queue # <<>>)
    /\ queue' = <<>>
    /\ calls' = [k \in CallIds |->
                    IF k = i THEN done
                    ELSE IF calls[k].pc = "waiting"
                         THEN [calls[k] EXCEPT !.pc = "holding"]
                         ELSE calls[k]]
    /\ lockOrder' = lockOrder \o queue

\* SimpleMutex.release as called by operation i, which ends in state done:
\* locked = false, then the oldest waiter's tryAcquire runs at once.
MutexRelease(i, done) ==
    IF queue = <<>>
    THEN /\ locked' = FALSE
         /\ queue' = queue
         /\ calls' = [calls EXCEPT ![i] = done]
         /\ lockOrder' = lockOrder
    ELSE LET sh == Shift(queue) IN
         /\ locked' = TRUE
         /\ queue' = sh.rest
         /\ calls' = [calls EXCEPT ![i] = done, ![sh.next].pc = "holding"]
         /\ lockOrder' = Append(lockOrder, sh.next)

\* A caller enters getIntegrations(cloneId).
GetIntegrationsCall(i) ==
    /\ calls[i].pc = "idle"
    /\ \A k \in 1..(i - 1) : calls[k].pc # "idle"
    /\ \E c \in GetInputs :
          MutexAcquire(i, [NoCall EXCEPT !.op = "get", !.cloneId = c])
    /\ UNCHANGED <<intFile, intFile0, intNow>>
    /\ UNCHANGED <<varsPipe, varsStore, varsWorker>>

\* A caller enters upsertIntegration(cloneId, platform, data).
UpsertIntegrationCall(i) ==
    /\ calls[i].pc = "idle"
    /\ \A k \in 1..(i - 1) : calls[k].pc # "idle"
    /\ \E in \in UpsertInputs :
          MutexAcquire(i, [NoCall EXCEPT !.op = "upsert",
                                         !.cloneId = in.cloneId,
                                         !.platform = in.platform,
                                         !.data = in.data])
    /\ UNCHANGED <<intFile, intFile0, intNow>>
    /\ UNCHANGED <<varsPipe, varsStore, varsWorker>>

\* A caller enters setIntegrations(cloneId, integrations).
SetIntegrationsCall(i) ==
    /\ calls[i].pc = "idle"
    /\ \A k \in 1..(i - 1) : calls[k].pc # "idle"
    /\ \E in \in SetInputs :
          MutexAcquire(i, [NoCall EXCEPT !.op = "set",
                                         !.cloneId = in.cloneId,
                                         !.list = in.list])
    /\ UNCHANGED <<intFile, intFile0, intNow>>
    /\ UNCHANGED <<varsPipe, varsStore, varsWorker>>

\* getIntegrations after the lock: loadStore, return, finally release.
GetIntegrationsLoad(i) ==
    /\ calls[i].pc = "holding"
    /\ calls[i].op = "get"
    /\ MutexRelease(i, [calls[i] EXCEPT !.pc = "done",
                                        !.store = intFile,
                                        !.result = intFile[calls[i].cloneId]])
    /\ UNCHANGED <<intFile, intFile0, reqOrder, intNow>>
    /\ UNCHANGED <<varsPipe, varsStore, varsWorker>>

\* upsertIntegration / setIntegrations after the lock: loadStore, read
\* Date.now(), build the new store, start saveStore.
MutatorLoad(i) ==
    /\ calls[i].pc = "holding"
    /\ calls[i].op \in {"upsert", "set"}
    /\ intNow' = intNow + 1
    /\ calls' = [calls EXCEPT
                    ![i].pc = "loaded",
                    ![i].ts = intNow + 1,
                    ![i].store = Modified(calls[i], intFile, intNow + 1)]
    /\ UNCHANGED <<intFile, intFile0, locked, queue, reqOrder, lockOrder>>
    /\ UNCHANGED <<varsPipe, varsStore, varsWorker>>

\* saveStore resolves: the file is rewritten, the list is returned and the
\* finally block releases the lock.
MutatorSave(i) ==
    /\ calls[i].pc = "loaded"
    /\ intFile' = calls[i].store
    /\ MutexRelease(i, [calls[i] EXCEPT
                           !.pc = "done",
                           !.result = calls[i].store[calls[i].cloneId]])
    /\ UNCHANGED <<intFile0, reqOrder, intNow>>
    /\ UNCHANGED <<varsPipe, varsStore, varsWorker>>

\* A rejection that skips the release (no finally block).
MutatorThrowNoFinally(i) ==
    /\ calls[i].pc = "loaded"
    /\ calls' = [calls EXCEPT ![i].pc = "failed"]
    /\ UNCHANGED <<intFile, intFile0, locked, queue, reqOrder, lockOrder,
                   intNow>>
    /\ UNCHANGED <<varsPipe, varsStore, varsWorker>>

\* saveStore rejects (mkdir or writeFile throws): the error propagates
\* through the finally block, which releases the lock.
MutatorThrow(i) ==
    /\ calls[i].pc = "loaded"
    /\ MutexRelease(i, [calls[i] EXCEPT !.pc = "failed"])
    /\ UNCHANGED <<intFile, intFile0, reqOrder, intNow>>
    /\ UNCHANGED <<varsPipe, varsStore, varsWorker>>

\* The module state at load, with the file as given.
IntegAt(file) ==
    /\ intFile = file
    /\ intFile0 = intFile
    /\ locked = FALSE
    /\ queue = <<>>
    /\ calls = [i \in CallIds |-> NoCall]
    /\ reqOrder = <<>>
    /\ lockOrder = <<>>
    /\ intNow = 0

InitInteg == \E file \in InitialFiles : IntegAt(file)
QuietInteg == IntegAt([c \in IntClones |-> <<>>])

IntegProgress ==
    \E i \in CallIds :
        GetIntegrationsLoad(i) \/ MutatorLoad(i) \/ MutatorSave(i)
        \/ MutatorThrow(i)

NextInteg ==
    \/ \E i \in CallIds : GetIntegrationsCall(i)
    \/ \E i \in CallIds : UpsertIntegrationCall(i)
    \/ \E i \in CallIds : SetIntegrationsCall(i)
    \/ \E i \in CallIds : GetIntegrationsLoad(i)
    \/ \E i \in CallIds : MutatorLoad(i)
    \/ \E i \in CallIds : MutatorSave(i)
    \/ \E i \in CallIds : MutatorThrow(i)

(***************************************************************************)
(* Values shared by the stores and the pipeline                            *)
(***************************************************************************)
\* knowledge.jsonl as readKnowledgeStats may find it: unreadable, or a list
\* of lines, each either unparseable ("bad") or a record naming its source.
KnowledgeFiles ==
    { <<"unreadable">>, <<>>, <<"bad">>, <<"docA", "bad", "docB", "docA">> }

\* A row's absent column / an update's absent field.
Null == "null"
NullCount == -1
NoError == <<>>

\* readKnowledgeStats: totalChunks is the number of lines that parse.
RECURSIVE TotalChunks(_)
TotalChunks(file) ==
    IF file = <<>> \/ file = <<"unreadable">> THEN 0
    ELSE (IF Head(file) = "bad" THEN 0 ELSE 1) + TotalChunks(Tail(file))

\* An error message that names neither the stage nor its code.
ExitErrorGeneric(label, code) == <<"process", "exited with code", 1>>

\* new Error(`${label} exited with code ${code}`)
ExitError(label, code) == <<label, "exited with code", code>>

(***************************************************************************)
(* Disk-backed record stores (lib/jobStore, lib/cloneStore) and the        *)
(* knowledge route that mutates them                                       *)
(***************************************************************************)

StoreJobIds == {"job-888", "job-1"}
StoreCloneIds == {"demo-clones", "clone-1"}

JobStatus == {"queued", "running", "succeeded", "failed"}
CloneStatus == {"training", "ready", "failed"}

InterruptedError == <<"Training interrupted by server restart">>

\* An id the map does not hold.
NoJob ==
    [status |-> "none", error |-> NoError, knowledgeCount |-> NullCount,
     knowledgeFile |-> Null, ragIndexDir |-> Null]
NoClone ==
    [status |-> "none", isRunning |-> FALSE, jobId |-> Null,
     knowledgeCount |-> NullCount, knowledgeFile |-> Null,
     ragIndexDir |-> Null]

StoredJob(status, error) ==
    [NoJob EXCEPT !.status = status, !.error = error]
StoredClone(status, running, jobId) ==
    [NoClone EXCEPT !.status = status, !.isRunning = running,
                    !.jobId = jobId]

\* The clone loadClonesFromDisk returns when clones.json does not exist.
DemoClone ==
    [status |-> "ready", isRunning |-> FALSE, jobId |-> "job-888",
     knowledgeCount |-> 2,
     knowledgeFile |-> "knowledge.jsonl", ragIndexDir |-> "rag_index"]

NoJobsMap == [id \in StoreJobIds |-> NoJob]
NoClonesMap == [id \in StoreCloneIds |-> NoClone]

\* A file is missing, unparseable ("corrupt"), or holds a map.
FileOf(map) == [state |-> "ok", map |-> map]
MissingJobsFile == [state |-> "missing", map |-> NoJobsMap]
MissingClonesFile == [state |-> "missing", map |-> NoClonesMap]

\* A load that keeps each job as the file has it.
SanitizeJobKeep(job) == job

\* loadJobsFromDisk's loop body.
SanitizeJob(job) ==
    IF job.status = "running"
    THEN [job EXCEPT !.status = "failed", !.error = InterruptedError]
    ELSE job

\* loadClonesFromDisk's loop body.
SanitizeClone(clone) == [clone EXCEPT !.isRunning = FALSE]

LoadJobsFromDisk(file) ==
    IF file.state # "ok" THEN NoJobsMap
    ELSE [id \in StoreJobIds |->
            IF file.map[id].status = "none" THEN NoJob
            ELSE SanitizeJob(file.map[id])]

LoadClonesFromDisk(file) ==
    IF file.state = "missing"
    THEN [NoClonesMap EXCEPT !["demo-clones"] = DemoClone]
    ELSE IF file.state # "ok" THEN NoClonesMap
    ELSE [id \in StoreCloneIds |->
            IF file.map[id].status = "none" THEN NoClone
            ELSE SanitizeClone(file.map[id])]

\* Files a previous run of the server may have left behind.
InitialJobsFiles ==
    { MissingJobsFile,
      [state |-> "corrupt", map |-> NoJobsMap],
      FileOf([NoJobsMap EXCEPT
                !["job-888"] = StoredJob("running", NoError),
                !["job-1"] = StoredJob("succeeded", NoError)]),
      FileOf([NoJobsMap EXCEPT
                !["job-888"] = StoredJob("queued", NoError),
                !["job-1"] = StoredJob("failed",
                                       ExitError("train_qlora", 1))]) }

InitialClonesFiles ==
    { MissingClonesFile,
      [state |-> "corrupt", map |-> NoClonesMap],
      FileOf([NoClonesMap EXCEPT
                !["demo-clones"] = [DemoClone EXCEPT !.isRunning = TRUE],
                !["clone-1"] = StoredClone("training", FALSE, "job-1")]),
      FileOf([NoClonesMap EXCEPT
                !["clone-1"] = StoredClone("failed", TRUE, "job-1")]) }

\* An update object with every field absent (undefined).
NoData ==
    [status |-> Null, error |-> NoError, isRunning |-> Null,
     knowledgeCount |-> NullCount, knowledgeFile |-> Null,
     ragIndexDir |-> Null]

\* jobStore.updateJob on a job that exists.
UpdateJob(job, data) ==
    [job EXCEPT
        !.status = IF data.status # Null THEN data.status ELSE @,
        !.error = IF data.error # NoError THEN data.error ELSE @,
        !.knowledgeFile =
            IF data.knowledgeFile # Null THEN data.knowledgeFile ELSE @,
        !.ragIndexDir =
            IF data.ragIndexDir # Null THEN data.ragIndexDir ELSE @,
        !.knowledgeCount =
            IF data.knowledgeCount # NullCount THEN data.knowledgeCount
            ELSE @]

\* cloneStore.updateClone on a clone that exists.
UpdateClone(clone, data) ==
    [clone EXCEPT
        !.status = IF data.status # Null THEN data.status ELSE @,
        !.isRunning = IF data.isRunning # Null THEN data.isRunning = "true"
                      ELSE @,
        !.knowledgeFile =
            IF data.knowledgeFile # Null THEN data.knowledgeFile ELSE @,
        !.ragIndexDir =
            IF data.ragIndexDir # Null THEN data.ragIndexDir ELSE @,
        !.knowledgeCount =
            IF data.knowledgeCount # NullCount THEN data.knowledgeCount
            ELSE @]

\* SAVE_DEBOUNCE_MS = 500, in clock ticks of 250 ms.
SAVE_DEBOUNCE == 2

\* saveTimeout: `left` is the time until the pending timeout is due (-1:
\* saveTimeout is null).  With it the store's recent history is kept:
\* `quiet` is the time since the last mutation (counted up to the window),
\* a burst is a run of mutations each less than the window after the one
\* before, `muts` counts the burst's mutations (up to 2) and `writes` the
\* file writes its timeouts made (up to 2; -1: no mutation since the module
\* was loaded).
NoTimer == [left |-> -1, quiet |-> SAVE_DEBOUNCE, muts |-> 0, writes |-> -1]

\* A scheduleSave that lets a pending timeout stand.
ScheduleSaveOnce(t) ==
    LET fresh == t.quiet >= SAVE_DEBOUNCE IN
    [left |-> IF t.left # -1 THEN t.left ELSE SAVE_DEBOUNCE,
     quiet |-> 0,
     muts |-> IF fresh THEN 1 ELSE IF t.muts < 2 THEN t.muts + 1 ELSE 2,
     writes |-> IF fresh THEN 0 ELSE t.writes]

\* scheduleSave(): a pending timeout is cleared and a new one is set.
ScheduleSave(t) ==
    LET fresh == t.quiet >= SAVE_DEBOUNCE IN
    [left |-> SAVE_DEBOUNCE,
     quiet |-> 0,
     muts |-> IF fresh THEN 1 ELSE IF t.muts < 2 THEN t.muts + 1 ELSE 2,
     writes |-> IF fresh THEN 0 ELSE t.writes]

\* The timeout's callback has run: one more write, saveTimeout = null.
SaveFired(t) ==
    [t EXCEPT !.left = -1, !.writes = IF @ < 2 THEN @ + 1 ELSE 2]

\* One clock tick passes for a store.
Later(t) ==
    [t EXCEPT !.left = IF @ > 0 THEN @ - 1 ELSE @,
              !.quiet = IF @ < SAVE_DEBOUNCE THEN @ + 1 ELSE @]

\* updateClone(id, data): the map and the debounce timer afterwards; an
\* unknown id returns undefined before scheduleSave.
UpdateCloneIn(map, timer, id, data) ==
    IF map[id].status = "none" THEN [map |-> map, timer |-> timer]
    ELSE [map |-> [map EXCEPT ![id] = UpdateClone(map[id], data)],
          timer |-> ScheduleSave(timer)]

\* updateJob(id, data): likewise; the id may be any string.
UpdateJobIn(map, timer, id, data) ==
    IF id \notin StoreJobIds \/ map[id].status = "none"
    THEN [map |-> map, timer |-> timer]
    ELSE [map |-> [map EXCEPT ![id] = UpdateJob(map[id], data)],
          timer |-> ScheduleSave(timer)]

\* The knowledge route's POST: after the dataset is re-parsed and the index
\* rebuilt, updateState writes the statistics to the clone and its job.
KnowledgeRebuild(c) ==
    /\ clones[c].status # "none"
    /\ \E file \in KnowledgeFiles :
         LET data == [NoData EXCEPT
                         !.knowledgeCount = TotalChunks(file),
                         !.knowledgeFile = "knowledge.jsonl",
                         !.ragIndexDir = "rag_index"]
             uc == UpdateCloneIn(clones, clonesTimer, c, data)
             uj == UpdateJobIn(jobs, jobsTimer, clones[c].jobId, data)
         IN  /\ clones' = uc.map
             /\ clonesTimer' = uc.timer
             /\ jobs' = uj.map
             /\ jobsTimer' = uj.timer
    /\ UNCHANGED <<jobsFile, clonesFile, boots>>
    /\ UNCHANGED <<varsInteg, varsPipe, varsWorker>>

\* The knowledge route's DELETE: the statistics are written back; with no
\* chunks left ragIndexDir is passed as undefined.
KnowledgeDelete(c) ==
    /\ clones[c].status # "none"
    /\ \E file \in KnowledgeFiles :
         LET data == [NoData EXCEPT
                         !.knowledgeCount = TotalChunks(file),
                         !.knowledgeFile = "knowledge.jsonl",
                         !.ragIndexDir =
                             IF TotalChunks(file) > 0 THEN "rag_index"
                             ELSE Null]
             uc == UpdateCloneIn(clones, clonesTimer, c, data)
             uj == UpdateJobIn(jobs, jobsTimer, clones[c].jobId, data)
         IN  /\ clones' = uc.map
             /\ clonesTimer' = uc.timer
             /\ jobs' = uj.map
             /\ jobsTimer' = uj.timer
    /\ UNCHANGED <<jobsFile, clonesFile, boots>>
    /\ UNCHANGED <<varsInteg, varsPipe, varsWorker>>

\* jobStore's debounce timer fires: saveJobsToDisk (a failed write is
\* caught and leaves the file as it was), saveTimeout = null.
JobsSaveTimer ==
    /\ jobsTimer.left = 0
    /\ jobsTimer' = SaveFired(jobsTimer)
    /\ \/ jobsFile' = FileOf(jobs)
       \/ jobsFile' = jobsFile
    /\ UNCHANGED <<jobs, clones, clonesFile, clonesTimer, boots>>
    /\ UNCHANGED <<varsInteg, varsPipe, varsWorker>>

\* cloneStore's debounce timer fires.
ClonesSaveTimer ==
    /\ clonesTimer.left = 0
    /\ clonesTimer' = SaveFired(clonesTimer)
    /\ \/ clonesFile' = FileOf(clones)
       \/ clonesFile' = clonesFile
    /\ UNCHANGED <<jobs, jobsFile, jobsTimer, clones, boots>>
    /\ UNCHANGED <<varsInteg, varsPipe, varsWorker>>

\* forceSave() has cleared the timeout: saveTimeout = null.
ForceSaved(t) ==
    [t EXCEPT !.left = -1]

\* A forceSave of jobStore that leaves a pending timeout in place.
ForceSaveJobsKeepsTimer(ok) ==
    /\ jobsFile' = IF ok THEN FileOf(jobs) ELSE jobsFile
    /\ UNCHANGED <<jobs, jobsTimer, clones, clonesFile, clonesTimer, boots>>
    /\ UNCHANGED <<varsInteg, varsPipe, varsWorker>>

\* jobStore's forceSave(): a pending timeout is cleared, then saveJobsToDisk
\* writes the map (ok) or its write is rejected, which is caught and leaves
\* the file as it was.
ForceSaveJobs(ok) ==
    /\ jobsTimer' = ForceSaved(jobsTimer)
    /\ jobsFile' = IF ok THEN FileOf(jobs) ELSE jobsFile
    /\ UNCHANGED <<jobs, clones, clonesFile, clonesTimer, boots>>
    /\ UNCHANGED <<varsInteg, varsPipe, varsWorker>>

\* cloneStore's forceSave().
ForceSaveClones(ok) ==
    /\ clonesTimer' = ForceSaved(clonesTimer)
    /\ clonesFile' = IF ok THEN FileOf(clones) ELSE clonesFile
    /\ UNCHANGED <<jobs, jobsFile, jobsTimer, clones, boots>>
    /\ UNCHANGED <<varsInteg, varsPipe, varsWorker>>

\* Time passes for the stores: a timeout that is due runs before more
\* time passes.
StoreClockTick ==
    /\ jobsTimer.left # 0 /\ clonesTimer.left # 0
    /\ Later(jobsTimer) # jobsTimer \/ Later(clonesTimer) # clonesTimer
    /\ jobsTimer' = Later(jobsTimer)
    /\ clonesTimer' = Later(clonesTimer)
    /\ UNCHANGED <<jobs, jobsFile, clones, clonesFile, boots>>
    /\ UNCHANGED <<varsInteg, varsPipe, varsWorker>>

\* The server process ends and a new one loads both store modules; timers
\* of the old process are gone.
ReloadStores ==
    /\ boots < MaxRestarts
    /\ boots' = boots + 1
    /\ jobs' = LoadJobsFromDisk(jobsFile)
    /\ clones' = LoadClonesFromDisk(clonesFile)
    /\ jobsTimer' = NoTimer
    /\ clonesTimer' = NoTimer
    /\ UNCHANGED <<jobsFile, clonesFile>>

\* The modules as loaded from the given files.
StoresAt(jf, cf) ==
    /\ jobsFile = jf
    /\ clonesFile = cf
    /\ jobs = LoadJobsFromDisk(jf)
    /\ clones = LoadClonesFromDisk(cf)
    /\ jobsTimer = NoTimer
    /\ clonesTimer = NoTimer
    /\ boots = 0

InitStores ==
    \E jf \in InitialJobsFiles, cf \in InitialClonesFiles : StoresAt(jf, cf)
QuietStores == StoresAt(MissingJobsFile, MissingClonesFile)

\* A jobs file written while job-888 was running.
InterruptedJobsFile ==
    FileOf([NoJobsMap EXCEPT
              !["job-888"] = StoredJob("running", NoError),
              !["job-1"] = StoredJob("succeeded", NoError)])

(***************************************************************************)
(* Training pipeline (app/api/training/route.ts) over the training_jobs   *)
(* and clones tables (lib/repositories/jobRepository, cloneRepository)     *)
(***************************************************************************)

JobIds == 1..MaxJobs
DbCloneIds == 1..MaxJobs
ReqIds == 1..MaxJobs

\* Labels runLoggedProcess is called with.
StageLabels == {"dataset_pipeline", "rag_index", "train_qlora"}
FatalLabels == {"dataset_pipeline", "train_qlora"}

\* Exit codes a stage process may close with.
ExitCodes == {0, 1, 2}
NoExit == -1

NoJobRow ==
    [status |-> "none", error |-> NoError, cloneId |-> 0,
     adapterDir |-> Null, processedDir |-> Null, knowledgeFile |-> Null,
     ragIndexDir |-> Null, knowledgeCount |-> NullCount, logs |-> <<>>]

NoCloneRow ==
    [status |-> "none", jobId |-> 0, isRunning |-> FALSE,
     knowledgeCount |-> NullCount, knowledgeFile |-> Null,
     ragIndexDir |-> Null]

\* An update object with every field absent.
NoUpdates ==
    [status |-> Null, error |-> NoError, cloneId |-> 0, adapterDir |-> Null,
     processedDir |-> Null, knowledgeFile |-> Null, ragIndexDir |-> Null,
     knowledgeCount |-> NullCount]

\* createJobRepo: the inserted row.
CreateJobRow(params) ==
    [NoJobRow EXCEPT !.status = "queued",
                     !.cloneId = params.cloneId,
                     !.adapterDir = params.adapterDir]

\* updateJobRepo: the columns it maps from the update object (cloneId and
\* cloneName are not among them).
UpdateJobRow(row, updates) ==
    [row EXCEPT
        !.status = IF updates.status # Null THEN updates.status ELSE @,
        !.error = IF updates.error # NoError THEN updates.error ELSE @,
        !.adapterDir =
            IF updates.adapterDir # Null THEN updates.adapterDir ELSE @,
        !.processedDir =
            IF updates.processedDir # Null THEN updates.processedDir ELSE @,
        !.knowledgeFile =
            IF updates.knowledgeFile # Null THEN updates.knowledgeFile ELSE @,
        !.ragIndexDir =
            IF updates.ragIndexDir # Null THEN updates.ragIndexDir ELSE @,
        !.knowledgeCount =
            IF updates.knowledgeCount # NullCount
            THEN updates.knowledgeCount ELSE @]

\* updateJobRepo against the table: a row that does not exist is not updated.
UpdateJobRepo(table, id, updates) ==
    IF table[id].status = "none" THEN table
    ELSE [table EXCEPT ![id] = UpdateJobRow(table[id], updates)]

\* appendLogRepo: select the row's logs, write them back with the line added.
AppendLogRepo(table, id, line) ==
    IF table[id].status = "none" THEN table
    ELSE [table EXCEPT ![id].logs = Append(@, line)]

\* Output chunks of stage processes, numbered as they arrive, and the
\* stream a chunk came from.
ChunkIds == 1..MaxChunks
Streams == {"stdout", "stderr"}

\* An appendLogRepo call made by a 'data' handler: where it is, the line
\* it was given, and the logs its select returned.
NoAppend == [pc |-> "idle", jobId |-> 0, line |-> <<"stdout", 0>>,
             seen |-> <<>>]

\* createCloneRepo: the inserted row.
CreateCloneRow(params) ==
    [NoCloneRow EXCEPT !.status = params.status, !.jobId = params.jobId]

\* updateCloneRepo: the columns the pipeline passes.
UpdateCloneRow(row, updates) ==
    [row EXCEPT
        !.status = IF updates.status # Null THEN updates.status ELSE @,
        !.knowledgeFile =
            IF updates.knowledgeFile # Null THEN updates.knowledgeFile ELSE @,
        !.ragIndexDir =
            IF updates.ragIndexDir # Null THEN updates.ragIndexDir ELSE @,
        !.knowledgeCount =
            IF updates.knowledgeCount # NullCount
            THEN updates.knowledgeCount ELSE @]

\* const job = await getJob(jobId); if (job?.cloneId) await
\* updateCloneRepo(job.cloneId, updates)
UpdateLinkedClone(clonesTable, jobsTable, jobId, updates) ==
    LET cid == jobsTable[jobId].cloneId IN
    IF cid = 0 \/ clonesTable[cid].status = "none" THEN clonesTable
    ELSE [clonesTable EXCEPT ![cid] = UpdateCloneRow(clonesTable[cid], updates)]

NoPipe == [pc |-> "idle", err |-> NoError, kfile |-> <<>>]
NoReq == [pc |-> "idle", jobId |-> 0, cloneId |-> 0]

\* A jobs table that hands out the id of its first row again.
FirstJobId == CHOOSE j \in JobIds : \A k \in JobIds : j <= k

\* The ids the tables mint: the next unused one.
FreshJobId == Cardinality({j \in JobIds : dbJobs[j].status # "none"}) + 1
FreshCloneId ==
    Cardinality({c \in DbCloneIds : dbClones[c].status # "none"}) + 1

\* A runner that does not await a stage: next to the stage's process the
\* adaptation process is started at once.
SpawnAhead(j, label) ==
    /\ started' = [started EXCEPT ![j] =
           IF label = "train_qlora" THEN Append(@, label)
           ELSE Append(Append(@, label), "train_qlora")]
    /\ alive' = [alive EXCEPT ![j] = @ \cup {label, "train_qlora"}]

\* runLoggedProcess up to the spawn: the stage process is started.
Spawn(j, label) ==
    /\ started' = [started EXCEPT ![j] = Append(@, label)]
    /\ alive' = [alive EXCEPT ![j] = @ \cup {label}]

\* runLoggedProcess's 'data' handlers: a running stage process of job j
\* has written chunk a to the stream; appendLogRepo(jobId, data.toString())
\* is called and not awaited, and runs up to its select.
StageData(a, j, stream) ==
    /\ appends[a].pc = "idle"
    /\ \A k \in 1..(a - 1) : appends[k].pc # "idle"
    /\ alive[j] # {}
    /\ appends' = [appends EXCEPT ![a] =
           [pc |-> "select", jobId |-> j, line |-> <<stream, a>>,
            seen |-> <<>>]]
    /\ UNCHANGED <<enableRealTrain, dbJobs, dbClones, reqs, pipe, started,
                   exits, alive>>
    /\ UNCHANGED <<varsInteg, varsStore, varsWorker>>

\* appendLogRepo: the select of the row's logs returns.
AppendLogSelect(a) ==
    /\ appends[a].pc = "select"
    /\ appends' = [appends EXCEPT
           ![a].pc = IF dbJobs[appends[a].jobId].status = "none"
                     THEN "done" ELSE "update",
           ![a].seen = dbJobs[appends[a].jobId].logs]
    /\ UNCHANGED <<enableRealTrain, dbJobs, dbClones, reqs, pipe, started,
                   exits, alive>>
    /\ UNCHANGED <<varsInteg, varsStore, varsWorker>>

\* appendLogRepo: the update writes the logs that were selected, with the
\* line added, over the row's logs.
AppendLogUpdate(a) ==
    /\ appends[a].pc = "update"
    /\ dbJobs' = [dbJobs EXCEPT ![appends[a].jobId].logs =
                     Append(appends[a].seen, appends[a].line)]
    /\ appends' = [appends EXCEPT ![a].pc = "done"]
    /\ UNCHANGED <<enableRealTrain, dbClones, reqs, pipe, started, exits,
                   alive>>
    /\ UNCHANGED <<varsInteg, varsStore, varsWorker>>

\* POST: createJobRepo.
PostCreateJob(r) ==
    /\ reqs[r].pc = "idle"
    /\ \A k \in 1..(r - 1) : reqs[k].pc # "idle"
    /\ LET j == FreshJobId IN
       /\ dbJobs' = [dbJobs EXCEPT ![j] =
             CreateJobRow([cloneId |-> 0, adapterDir |-> "pending"])]
       /\ reqs' = [reqs EXCEPT ![r] = [pc |-> "job", jobId |-> j,
                                       cloneId |-> 0]]
    /\ UNCHANGED <<appends, enableRealTrain, dbClones, pipe, started, exits,
                   alive>>
    /\ UNCHANGED <<varsInteg, varsStore, varsWorker>>

\* POST: createCloneRepo with jobId and status "training".
PostCreateClone(r) ==
    /\ reqs[r].pc = "job"
    /\ LET c == FreshCloneId IN
       /\ dbClones' = [dbClones EXCEPT ![c] =
             CreateCloneRow([status |-> "training", jobId |-> reqs[r].jobId])]
       /\ reqs' = [reqs EXCEPT ![r].pc = "clone", ![r].cloneId = c]
    /\ UNCHANGED <<appends, enableRealTrain, dbJobs, pipe, started, exits,
                   alive>>
    /\ UNCHANGED <<varsInteg, varsStore, varsWorker>>

\* POST's response body once request r has been answered.
PostResponse(r) ==
    [jobId |-> reqs[r].jobId, cloneId |-> reqs[r].cloneId,
     status |-> "queued", simulated |-> ~enableRealTrain]

\* A POST that awaits the pipeline's first stage before it responds.
PostLinkAndRespondLate(r) ==
    /\ reqs[r].pc = "clone"
    /\ LET j == reqs[r].jobId IN
       /\ dbJobs' = UpdateJobRepo(dbJobs, j,
                        [NoUpdates EXCEPT !.cloneId = reqs[r].cloneId])
       /\ pipe' = [pipe EXCEPT ![j].pc =
                      IF enableRealTrain THEN "stage1" ELSE "sim_begin"]
       /\ IF enableRealTrain
          THEN Spawn(j, "dataset_pipeline")
          ELSE UNCHANGED <<started, alive>>
    /\ reqs' = [reqs EXCEPT ![r].pc = "responded"]
    /\ UNCHANGED <<appends, enableRealTrain, dbClones, exits>>
    /\ UNCHANGED <<varsInteg, varsStore, varsWorker>>

\* POST: updateJobRepo(job.id, {cloneId, cloneName}), then simulateJob or
\* runPipeline is called without await and the response is returned.
PostLinkAndRespond(r) ==
    /\ reqs[r].pc = "clone"
    /\ LET j == reqs[r].jobId IN
       /\ dbJobs' = UpdateJobRepo(dbJobs, j,
                        [NoUpdates EXCEPT !.cloneId = reqs[r].cloneId])
       /\ pipe' = [pipe EXCEPT ![j].pc =
                      IF enableRealTrain THEN "rp_begin" ELSE "sim_begin"]
    /\ reqs' = [reqs EXCEPT ![r].pc = "responded"]
    /\ UNCHANGED <<appends, enableRealTrain, dbClones, started, exits, alive>>
    /\ UNCHANGED <<varsInteg, varsStore, varsWorker>>

\* simulateJob: status running, first log line, then the 5 s timer is set.
SimulateBegin(j) ==
    /\ pipe[j].pc = "sim_begin"
    /\ dbJobs' = AppendLogRepo(
                    UpdateJobRepo(dbJobs, j,
                                  [NoUpdates EXCEPT !.status = "running"]),
                    j, <<"Simulated training started.", 0>>)
    /\ pipe' = [pipe EXCEPT ![j].pc = "sim_timer"]
    /\ UNCHANGED <<appends, enableRealTrain, dbClones, reqs, started, exits,
                   alive>>
    /\ UNCHANGED <<varsInteg, varsStore, varsWorker>>

\* simulateJob's timer callback: last log line and status succeeded.
SimulateFinish(j) ==
    /\ pipe[j].pc = "sim_timer"
    /\ dbJobs' = UpdateJobRepo(
                    AppendLogRepo(dbJobs, j,
                                  <<"Simulated training finished.", 0>>),
                    j, [NoUpdates EXCEPT !.status = "succeeded"])
    /\ pipe' = [pipe EXCEPT ![j].pc = "sim_clone"]
    /\ UNCHANGED <<appends, enableRealTrain, dbClones, reqs, started, exits,
                   alive>>
    /\ UNCHANGED <<varsInteg, varsStore, varsWorker>>

\* simulateJob's timer callback: getJob, then the linked clone is set ready.
SimulateCloneReady(j) ==
    /\ pipe[j].pc = "sim_clone"
    /\ dbClones' = UpdateLinkedClone(dbClones, dbJobs, j,
                                     [NoUpdates EXCEPT !.status = "ready"])
    /\ pipe' = [pipe EXCEPT ![j].pc = "done"]
    /\ UNCHANGED <<appends, enableRealTrain, dbJobs, reqs, started, exits,
                   alive>>
    /\ UNCHANGED <<varsInteg, varsStore, varsWorker>>

\* A runPipeline that records the output paths but never marks the job
\* running.
RunPipelineBeginUnmarked(j) ==
    /\ pipe[j].pc = "rp_begin"
    /\ dbJobs' = UpdateJobRepo(dbJobs, j,
                    [NoUpdates EXCEPT !.adapterDir = "lora_adapter",
                                      !.processedDir = "processed_dataset",
                                      !.knowledgeFile = "knowledge.jsonl",
                                      !.ragIndexDir = "rag_index"])
    /\ Spawn(j, "dataset_pipeline")
    /\ pipe' = [pipe EXCEPT ![j].pc = "stage1"]
    /\ UNCHANGED <<appends, enableRealTrain, dbClones, reqs, exits>>
    /\ UNCHANGED <<varsInteg, varsStore, varsWorker>>

\* runPipeline: status running and the output paths, then the parsing
\* stage is spawned.
RunPipelineBegin(j) ==
    /\ pipe[j].pc = "rp_begin"
    /\ dbJobs' = UpdateJobRepo(dbJobs, j,
                    [NoUpdates EXCEPT !.status = "running",
                                      !.adapterDir = "lora_adapter",
                                      !.processedDir = "processed_dataset",
                                      !.knowledgeFile = "knowledge.jsonl",
                                      !.ragIndexDir = "rag_index"])
    /\ Spawn(j, "dataset_pipeline")
    /\ pipe' = [pipe EXCEPT ![j].pc = "stage1"]
    /\ UNCHANGED <<appends, enableRealTrain, dbClones, reqs, exits>>
    /\ UNCHANGED <<varsInteg, varsStore, varsWorker>>

\* The close handler of runLoggedProcess: code 0 resolves, any other code
\* rejects with the stage's error.
CloseOutcome(label, code) ==
    IF code # 0 THEN ExitError(label, code) ELSE NoError

\* The parsing process closes and the pipeline goes on whatever the code.
DatasetPipelineCloseIgnored(j) ==
    /\ pipe[j].pc = "stage1"
    /\ \E code \in ExitCodes :
         /\ exits' = [exits EXCEPT ![j]["dataset_pipeline"] = code]
         /\ pipe' = [pipe EXCEPT ![j].pc = "read_knowledge"]
    /\ alive' = [alive EXCEPT ![j] = @ \ {"dataset_pipeline"}]
    /\ UNCHANGED <<appends, enableRealTrain, dbJobs, dbClones, reqs, started>>
    /\ UNCHANGED <<varsInteg, varsStore, varsWorker>>

\* The parsing process closes; on rejection control passes to the catch.
DatasetPipelineClose(j) ==
    /\ pipe[j].pc = "stage1"
    /\ \E code \in ExitCodes :
         LET err == CloseOutcome("dataset_pipeline", code) IN
         /\ exits' = [exits EXCEPT ![j]["dataset_pipeline"] = code]
         /\ pipe' = [pipe EXCEPT
                        ![j].pc = IF err # NoError THEN "catch"
                                  ELSE "read_knowledge",
                        ![j].err = err]
    /\ alive' = [alive EXCEPT ![j] = @ \ {"dataset_pipeline"}]
    /\ UNCHANGED <<appends, enableRealTrain, dbJobs, dbClones, reqs, started>>
    /\ UNCHANGED <<varsInteg, varsStore, varsWorker>>

\* readKnowledgeStats and updateJobRepo({knowledgeCount, knowledgeSources}).
ReadKnowledgeStats(j) ==
    /\ pipe[j].pc = "read_knowledge"
    /\ \E file \in KnowledgeFiles :
         /\ dbJobs' = UpdateJobRepo(
                IF file = <<"unreadable">>
                THEN AppendLogRepo(dbJobs, j,
                                   <<"Failed to read knowledge file", 0>>)
                ELSE dbJobs,
                j, [NoUpdates EXCEPT !.knowledgeCount = TotalChunks(file)])
         /\ pipe' = [pipe EXCEPT ![j].pc = "clone_knowledge",
                                 ![j].kfile = file]
    /\ UNCHANGED <<appends, enableRealTrain, dbClones, reqs, started, exits,
                   alive>>
    /\ UNCHANGED <<varsInteg, varsStore, varsWorker>>

\* A runPipeline that builds the index whatever the chunk count is.
CloneKnowledgeThenIndexAlways(j) ==
    /\ pipe[j].pc = "clone_knowledge"
    /\ dbClones' = UpdateLinkedClone(dbClones, dbJobs, j,
            [NoUpdates EXCEPT !.knowledgeCount = TotalChunks(pipe[j].kfile),
                              !.knowledgeFile = "knowledge.jsonl",
                              !.ragIndexDir = "rag_index"])
    /\ IF TotalChunks(pipe[j].kfile) >= 0
       THEN /\ dbJobs' = AppendLogRepo(dbJobs, j,
                                       <<"Building RAG index", 0>>)
            /\ Spawn(j, "rag_index")
            /\ pipe' = [pipe EXCEPT ![j].pc = "stage2"]
       ELSE /\ dbJobs' = AppendLogRepo(dbJobs, j,
                    <<"No knowledge chunks found, skipping RAG index build.",
                      0>>)
            /\ Spawn(j, "train_qlora")
            /\ pipe' = [pipe EXCEPT ![j].pc = "stage3"]
    /\ UNCHANGED <<appends, enableRealTrain, reqs, exits>>
    /\ UNCHANGED <<varsInteg, varsStore, varsWorker>>

\* getJob; the linked clone gets the knowledge fields; then either
\* runRagIndex logs and spawns the indexing stage, or indexing is skipped
\* and the adaptation stage is spawned.
CloneKnowledgeThenIndex(j) ==
    /\ pipe[j].pc = "clone_knowledge"
    /\ dbClones' = UpdateLinkedClone(dbClones, dbJobs, j,
            [NoUpdates EXCEPT !.knowledgeCount = TotalChunks(pipe[j].kfile),
                              !.knowledgeFile = "knowledge.jsonl",
                              !.ragIndexDir = "rag_index"])
    /\ IF TotalChunks(pipe[j].kfile) > 0
       THEN /\ dbJobs' = AppendLogRepo(dbJobs, j,
                                       <<"Building RAG index", 0>>)
            /\ Spawn(j, "rag_index")
            /\ pipe' = [pipe EXCEPT ![j].pc = "stage2"]
       ELSE /\ dbJobs' = AppendLogRepo(dbJobs, j,
                    <<"No knowledge chunks found, skipping RAG index build.",
                      0>>)
            /\ Spawn(j, "train_qlora")
            /\ pipe' = [pipe EXCEPT ![j].pc = "stage3"]
    /\ UNCHANGED <<appends, enableRealTrain, reqs, exits>>
    /\ UNCHANGED <<varsInteg, varsStore, varsWorker>>

\* The indexing process closes with no inner catch: a rejection passes to
\* the outer catch like any other stage's.
RagIndexCloseFatal(j) ==
    /\ pipe[j].pc = "stage2"
    /\ \E code \in ExitCodes :
         LET ragErr == CloseOutcome("rag_index", code) IN
         /\ exits' = [exits EXCEPT ![j]["rag_index"] = code]
         /\ IF ragErr # NoError
            THEN /\ pipe' = [pipe EXCEPT ![j].pc = "catch", ![j].err = ragErr]
                 /\ alive' = [alive EXCEPT ![j] = @ \ {"rag_index"}]
                 /\ UNCHANGED <<dbJobs, started>>
            ELSE /\ dbJobs' = AppendLogRepo(dbJobs, j, <<"RAG index saved", 0>>)
                 /\ started' = [started EXCEPT ![j] = Append(@, "train_qlora")]
                 /\ alive' = [alive EXCEPT
                                 ![j] = (@ \ {"rag_index"}) \cup {"train_qlora"}]
                 /\ pipe' = [pipe EXCEPT ![j].pc = "stage3"]
    /\ UNCHANGED <<appends, enableRealTrain, dbClones, reqs>>
    /\ UNCHANGED <<varsInteg, varsStore, varsWorker>>

\* The indexing process closes: a rejection is caught by the inner catch,
\* which only logs it; either way the adaptation stage is spawned next.
RagIndexClose(j) ==
    /\ pipe[j].pc = "stage2"
    /\ \E code \in ExitCodes :
         LET ragErr == CloseOutcome("rag_index", code) IN
         /\ exits' = [exits EXCEPT ![j]["rag_index"] = code]
         /\ dbJobs' = AppendLogRepo(dbJobs, j,
                IF ragErr # NoError
                THEN <<"RAG index build failed (will continue without RAG)",
                       code>>
                ELSE <<"RAG index saved", 0>>)
    /\ started' = [started EXCEPT ![j] = Append(@, "train_qlora")]
    /\ alive' = [alive EXCEPT ![j] = (@ \ {"rag_index"}) \cup {"train_qlora"}]
    /\ pipe' = [pipe EXCEPT ![j].pc = "stage3"]
    /\ UNCHANGED <<appends, enableRealTrain, dbClones, reqs>>
    /\ UNCHANGED <<varsInteg, varsStore, varsWorker>>

\* The adaptation process closes; on rejection control passes to the catch.
TrainClose(j) ==
    /\ pipe[j].pc = "stage3"
    /\ \E code \in ExitCodes :
         LET err == CloseOutcome("train_qlora", code) IN
         /\ exits' = [exits EXCEPT ![j]["train_qlora"] = code]
         /\ pipe' = [pipe EXCEPT
                        ![j].pc = IF err # NoError THEN "catch" ELSE "succeed",
                        ![j].err = err]
    /\ alive' = [alive EXCEPT ![j] = @ \ {"train_qlora"}]
    /\ UNCHANGED <<appends, enableRealTrain, dbJobs, dbClones, reqs, started>>
    /\ UNCHANGED <<varsInteg, varsStore, varsWorker>>

\* runPipeline's last statements in the try block.
RunPipelineSucceed(j) ==
    /\ pipe[j].pc = "succeed"
    /\ dbJobs' = UpdateJobRepo(dbJobs, j,
                               [NoUpdates EXCEPT !.status = "succeeded"])
    /\ dbClones' = UpdateLinkedClone(dbClones, dbJobs', j,
                                     [NoUpdates EXCEPT !.status = "ready"])
    /\ pipe' = [pipe EXCEPT ![j].pc = "done"]
    /\ UNCHANGED <<appends, enableRealTrain, reqs, started, exits, alive>>
    /\ UNCHANGED <<varsInteg, varsStore, varsWorker>>

\* A catch block that swallows the error and writes nothing.
RunPipelineCatchSilent(j) ==
    /\ pipe[j].pc = "catch"
    /\ pipe' = [pipe EXCEPT ![j].pc = "done"]
    /\ UNCHANGED <<appends, enableRealTrain, dbJobs, dbClones, reqs, started,
                   exits, alive>>
    /\ UNCHANGED <<varsInteg, varsStore, varsWorker>>

\* runPipeline's catch block.
RunPipelineCatch(j) ==
    /\ pipe[j].pc = "catch"
    /\ dbJobs' = UpdateJobRepo(dbJobs, j,
                    [NoUpdates EXCEPT !.status = "failed",
                                      !.error = pipe[j].err])
    /\ dbClones' = UpdateLinkedClone(dbClones, dbJobs', j,
                                     [NoUpdates EXCEPT !.status = "failed"])
    /\ pipe' = [pipe EXCEPT ![j].pc = "done"]
    /\ UNCHANGED <<appends, enableRealTrain, reqs, started, exits, alive>>
    /\ UNCHANGED <<varsInteg, varsStore, varsWorker>>

\* The server process is replaced while requests and pipelines are in
\* flight: their handlers are gone, the tables and the stage processes are
\* not touched, and the store modules are loaded again.
ServerRestart ==
    /\ ReloadStores
    /\ reqs' = [r \in ReqIds |->
           IF reqs[r].pc \in {"job", "clone"}
           THEN [reqs[r] EXCEPT !.pc = "aborted"] ELSE reqs[r]]
    /\ pipe' = [j \in JobIds |->
           IF pipe[j].pc \notin {"idle", "done"}
           THEN [pipe[j] EXCEPT !.pc = "aborted"] ELSE pipe[j]]
    /\ appends' = [a \in ChunkIds |->
           IF appends[a].pc \in {"select", "update"}
           THEN [appends[a] EXCEPT !.pc = "aborted"] ELSE appends[a]]
    /\ UNCHANGED <<enableRealTrain, dbJobs, dbClones, started, exits,
                   alive>>
    /\ UNCHANGED <<varsInteg, varsWorker>>

\* The tables are empty and no request has arrived.
PipeAt(real) ==
    /\ enableRealTrain = real
    /\ dbJobs = [j \in JobIds |-> NoJobRow]
    /\ dbClones = [c \in DbCloneIds |-> NoCloneRow]
    /\ reqs = [r \in ReqIds |-> NoReq]
    /\ pipe = [j \in JobIds |-> NoPipe]
    /\ started = [j \in JobIds |-> <<>>]
    /\ exits = [j \in JobIds |-> [l \in StageLabels |-> NoExit]]
    /\ alive = [j \in JobIds |-> {}]
    /\ appends = [a \in ChunkIds |-> NoAppend]

InitPipe == \E real \in BOOLEAN : PipeAt(real)
QuietPipe == PipeAt(FALSE)

NextPipe ==
    \/ \E r \in ReqIds : PostCreateJob(r)
    \/ \E r \in ReqIds : PostCreateClone(r)
    \/ \E r \in ReqIds : PostLinkAndRespond(r)
    \/ \E j \in JobIds : SimulateBegin(j)
    \/ \E j \in JobIds : SimulateFinish(j)
    \/ \E j \in JobIds : SimulateCloneReady(j)
    \/ \E j \in JobIds : RunPipelineBegin(j)
    \/ \E j \in JobIds : DatasetPipelineClose(j)
    \/ \E j \in JobIds : ReadKnowledgeStats(j)
    \/ \E j \in JobIds : CloneKnowledgeThenIndex(j)
    \/ \E j \in JobIds : RagIndexClose(j)
    \/ \E j \in JobIds : TrainClose(j)
    \/ \E j \in JobIds : RunPipelineSucceed(j)
    \/ \E j \in JobIds : RunPipelineCatch(j)
    \/ ServerRestart

\* The stores' own steps: the knowledge route, the save timers, a restart.
NextStores ==
    \/ \E c \in StoreCloneIds : KnowledgeRebuild(c)
    \/ \E c \in StoreCloneIds : KnowledgeDelete(c)
    \/ JobsSaveTimer
    \/ ClonesSaveTimer
    \/ StoreClockTick
    \/ ServerRestart

\* The stores of one server process with callers of forceSave (the
\* repository has none).
NextForceSave ==
    \/ \E c \in StoreCloneIds : KnowledgeRebuild(c)
    \/ \E c \in StoreCloneIds : KnowledgeDelete(c)
    \/ \E ok \in BOOLEAN : ForceSaveJobs(ok)
    \/ \E ok \in BOOLEAN : ForceSaveClones(ok)
    \/ JobsSaveTimer
    \/ ClonesSaveTimer
    \/ StoreClockTick

(***************************************************************************)
(* Worker manager (lib/workerManager) and the start/stop route             *)
(***************************************************************************)

\* 20000 ms, in units of the 10000 ms monitor interval.
HEARTBEAT_TIMEOUT == 2

StartIds == 1..MaxStarts
\* Pid 1 is a worker left behind by an earlier server process, if any;
\* the pids after it are handed out to forked children in order.
OrphanPid == 1
Pids == 1..(MaxStarts + 1)

WorkerStatus == {"starting", "running", "stopped", "error"}

NoProc == [state |-> "unborn", cloneId |-> "demo-clones", term |-> FALSE,
           boot |-> -1, ready |-> FALSE]
\* A record's age is Date.now() - lastHeartbeat in units of the monitor
\* interval, counted up to one past the timeout.
NoRec == [status |-> "none", age |-> 0]
\* A call remembers the pid it found in the pid file and signalled, if any.
NoStart == [pc |-> "idle", cloneId |-> "demo-clones", killed |-> 0]

\* isProcessRunning(pid): signal 0 reaches the process.
IsProcessRunning(pid) == pid \in Pids /\ procs[pid].state = "alive"

\* child.pid of the next fork.
FreshPid == 2 + Cardinality({p \in Pids \ {OrphanPid} :
                                procs[p].state # "unborn"})

\* The handlers startCloneWorker attached to a child run only in the
\* server process that forked it.
Attached(p) == procs[p].boot = boots

\* The worker processes forked by this server process that are running.
LiveWorkers(c) ==
    {p \in Pids : procs[p].state = "alive" /\ procs[p].cloneId = c
                  /\ procs[p].boot = boots}

\* A killProcess that sends SIGTERM and sets no timer.
KillProcessNoTimer(pid) ==
    /\ procs' = [procs EXCEPT ![pid].term = TRUE]
    /\ killTimers' = killTimers

\* killProcess(pid): SIGTERM now, and a timer that sends SIGKILL later if
\* the process is still there.
KillProcess(pid) ==
    /\ procs' = [procs EXCEPT ![pid].term = TRUE]
    /\ killTimers' = killTimers \cup {pid}

\* startCloneWorker's first test: a record in the map rejects the call.
WorkersHas(c) == workers[c] # 0

\* A startCloneWorker that does not look for a record in the map.
StartCloneWorkerBeginUnchecked(s, c) ==
    /\ startCalls[s].pc = "idle"
    /\ \A k \in 1..(s - 1) : startCalls[k].pc # "idle"
    /\ clones[c].status # "none"
    /\ IF pidFiles[c] # 0 /\ IsProcessRunning(pidFiles[c])
       THEN /\ KillProcess(pidFiles[c])
            /\ pidFiles' = [pidFiles EXCEPT ![c] = 0]
            /\ startCalls' = [startCalls EXCEPT ![s] =
                   [pc |-> "sleep", cloneId |-> c, killed |-> pidFiles[c]]]
       ELSE /\ startCalls' = [startCalls EXCEPT ![s] =
                   [pc |-> "integrations", cloneId |-> c, killed |-> 0]]
            /\ UNCHANGED <<procs, killTimers, pidFiles>>
    /\ UNCHANGED <<workers, recs, monitoring, varsStore>>
    /\ UNCHANGED <<varsInteg, varsPipe>>

\* The route calls startCloneWorker(c) for a clone it found: reject when a
\* record exists; kill the process the pid file names if it is running
\* and sleep; otherwise go on to getIntegrations.
StartCloneWorkerBegin(s, c) ==
    /\ startCalls[s].pc = "idle"
    /\ \A k \in 1..(s - 1) : startCalls[k].pc # "idle"
    /\ clones[c].status # "none"
    /\ IF WorkersHas(c)
       THEN /\ startCalls' = [startCalls EXCEPT ![s] =
                   [pc |-> "rejected", cloneId |-> c, killed |-> 0]]
            /\ UNCHANGED <<procs, killTimers, pidFiles>>
       ELSE IF pidFiles[c] # 0 /\ IsProcessRunning(pidFiles[c])
       THEN /\ KillProcess(pidFiles[c])
            /\ pidFiles' = [pidFiles EXCEPT ![c] = 0]
            /\ startCalls' = [startCalls EXCEPT ![s] =
                   [pc |-> "sleep", cloneId |-> c, killed |-> pidFiles[c]]]
       ELSE /\ startCalls' = [startCalls EXCEPT ![s] =
                   [pc |-> "integrations", cloneId |-> c, killed |-> 0]]
            /\ UNCHANGED <<procs, killTimers, pidFiles>>
    /\ UNCHANGED <<workers, recs, monitoring, varsStore>>
    /\ UNCHANGED <<varsInteg, varsPipe>>

\* The 1000 ms sleep ends: getClone, getJob, then await getIntegrations.
StartCloneWorkerSlept(s) ==
    /\ startCalls[s].pc = "sleep"
    /\ startCalls' = [startCalls EXCEPT ![s].pc =
           IF clones[startCalls[s].cloneId].status = "none"
           THEN "notfound" ELSE "integrations"]
    /\ UNCHANGED <<workers, recs, pidFiles, procs, killTimers, monitoring,
                   varsStore>>
    /\ UNCHANGED <<varsInteg, varsPipe>>

\* A fork that does not write the pid file.
StartCloneWorkerForkNoPidFile(s) ==
    /\ startCalls[s].pc = "integrations"
    /\ LET c == startCalls[s].cloneId
           pid == FreshPid
           uc == UpdateCloneIn(clones, clonesTimer, c,
                     [NoData EXCEPT !.isRunning = "true",
                                    !.status = "ready"])
       IN  /\ procs' = [procs EXCEPT ![pid] =
                  [state |-> "alive", cloneId |-> c, term |-> FALSE,
                   boot |-> boots, ready |-> FALSE]]
           /\ pidFiles' = pidFiles
           /\ recs' = [recs EXCEPT ![pid] =
                  [status |-> "starting", age |-> 0]]
           /\ workers' = [workers EXCEPT ![c] = pid]
           /\ clones' = uc.map
           /\ clonesTimer' = uc.timer
           /\ startCalls' = [startCalls EXCEPT ![s].pc = "returned"]
    /\ monitoring' = TRUE
    /\ UNCHANGED <<killTimers, jobs, jobsFile, jobsTimer, clonesFile,
                   boots>>
    /\ UNCHANGED <<varsInteg, varsPipe>>

\* getIntegrations resolves: fork, pid file, record, map entry, clone
\* update, monitoring, handlers; the call returns.
StartCloneWorkerFork(s) ==
    /\ startCalls[s].pc = "integrations"
    /\ LET c == startCalls[s].cloneId
           pid == FreshPid
           uc == UpdateCloneIn(clones, clonesTimer, c,
                     [NoData EXCEPT !.isRunning = "true",
                                    !.status = "ready"])
       IN  /\ procs' = [procs EXCEPT ![pid] =
                  [state |-> "alive", cloneId |-> c, term |-> FALSE,
                   boot |-> boots, ready |-> FALSE]]
           /\ pidFiles' = [pidFiles EXCEPT ![c] = pid]
           /\ recs' = [recs EXCEPT ![pid] =
                  [status |-> "starting", age |-> 0]]
           /\ workers' = [workers EXCEPT ![c] = pid]
           /\ clones' = uc.map
           /\ clonesTimer' = uc.timer
           /\ startCalls' = [startCalls EXCEPT ![s].pc = "returned"]
    /\ monitoring' = TRUE
    /\ UNCHANGED <<killTimers, jobs, jobsFile, jobsTimer, clonesFile,
                   boots>>
    /\ UNCHANGED <<varsInteg, varsPipe>>

\* A stop that also writes a status to the clone.
StopCloneDataFailed ==
    [NoData EXCEPT !.isRunning = "false", !.status = "failed"]

\* What stopCloneWorker writes to the clone: { isRunning: false }.
StopCloneData == [NoData EXCEPT !.isRunning = "false"]

\* A stop that leaves the pid file of a tracked worker in place.
StopCloneWorkerKeepsPidFile(c) ==
    /\ clones[c].status # "none"
    /\ LET uc == UpdateCloneIn(clones, clonesTimer, c,
                     [NoData EXCEPT !.isRunning = "false"])
       IN
       IF workers[c] # 0
       THEN \* rec.child.kill("SIGTERM"), delete, removePidFile, updateClone
            /\ procs' = [procs EXCEPT ![workers[c]].term =
                            @ \/ procs[workers[c]].state = "alive"]
            /\ workers' = [workers EXCEPT ![c] = 0]
            /\ pidFiles' = pidFiles
            /\ clones' = uc.map
            /\ clonesTimer' = uc.timer
            /\ UNCHANGED killTimers
       ELSE IF pidFiles[c] # 0 /\ IsProcessRunning(pidFiles[c])
       THEN \* orphan: killProcess, removePidFile, updateClone
            /\ KillProcess(pidFiles[c])
            /\ pidFiles' = [pidFiles EXCEPT ![c] = 0]
            /\ clones' = uc.map
            /\ clonesTimer' = uc.timer
            /\ UNCHANGED workers
       ELSE \* "Worker not running"
            UNCHANGED <<procs, workers, pidFiles, clones, clonesTimer,
                        killTimers>>
    /\ UNCHANGED <<recs, startCalls, monitoring, jobs, jobsFile,
                   jobsTimer, clonesFile, boots>>
    /\ UNCHANGED <<varsInteg, varsPipe>>

\* The route calls stopCloneWorker(c) for a clone it found.
StopCloneWorker(c) ==
    /\ clones[c].status # "none"
    /\ LET uc == UpdateCloneIn(clones, clonesTimer, c, StopCloneData)
       IN
       IF workers[c] # 0
       THEN \* rec.child.kill("SIGTERM"), delete, removePidFile, updateClone
            /\ procs' = [procs EXCEPT ![workers[c]].term =
                            @ \/ procs[workers[c]].state = "alive"]
            /\ workers' = [workers EXCEPT ![c] = 0]
            /\ pidFiles' = [pidFiles EXCEPT ![c] = 0]
            /\ clones' = uc.map
            /\ clonesTimer' = uc.timer
            /\ UNCHANGED killTimers
       ELSE IF pidFiles[c] # 0 /\ IsProcessRunning(pidFiles[c])
       THEN \* orphan: killProcess, removePidFile, updateClone
            /\ KillProcess(pidFiles[c])
            /\ pidFiles' = [pidFiles EXCEPT ![c] = 0]
            /\ clones' = uc.map
            /\ clonesTimer' = uc.timer
            /\ UNCHANGED workers
       ELSE \* "Worker not running"
            UNCHANGED <<procs, workers, pidFiles, clones, clonesTimer,
                        killTimers>>
    /\ UNCHANGED <<recs, startCalls, monitoring, jobs, jobsFile,
                   jobsTimer, clonesFile, boots>>
    /\ UNCHANGED <<varsInteg, varsPipe>>

\* What stopCloneWorker(c) returns, from the state it is called in.
StopResult(c) ==
    IF workers[c] # 0 THEN [ok |-> TRUE, wasOrphaned |-> FALSE]
    ELSE IF pidFiles[c] # 0 /\ IsProcessRunning(pidFiles[c])
    THEN [ok |-> TRUE, wasOrphaned |-> TRUE]
    ELSE [ok |-> FALSE, wasOrphaned |-> FALSE]

\* A process that has ended: its flags and the record its handlers held
\* are no longer reachable from anything.
Ended(proc) == [proc EXCEPT !.state = "dead", !.term = FALSE, !.ready = FALSE]

\* An exit handler that leaves the pid file behind.
OnExitKeepsPidFile(p) ==
    LET c == procs[p].cloneId
        uc == UpdateCloneIn(clones, clonesTimer, c,
                  [NoData EXCEPT !.isRunning = "false"])
    IN  IF Attached(p)
        THEN /\ workers' = [workers EXCEPT ![c] = 0]
             /\ pidFiles' = pidFiles
             /\ clones' = uc.map
             /\ clonesTimer' = uc.timer
        ELSE UNCHANGED <<workers, pidFiles, clones, clonesTimer>>

\* What the child's exit handler does to the map, the pid file and the
\* clone, when it is attached.
OnExit(p) ==
    LET c == procs[p].cloneId
        uc == UpdateCloneIn(clones, clonesTimer, c,
                  [NoData EXCEPT !.isRunning = "false"])
    IN  IF Attached(p)
        THEN /\ workers' = [workers EXCEPT ![c] = 0]
             /\ pidFiles' = [pidFiles EXCEPT ![c] = 0]
             /\ clones' = uc.map
             /\ clonesTimer' = uc.timer
        ELSE UNCHANGED <<workers, pidFiles, clones, clonesTimer>>

\* A process ends (shutdown after SIGTERM, crash, or an outside kill).
ProcessExit(p) ==
    /\ procs[p].state = "alive"
    /\ procs' = [procs EXCEPT ![p] = Ended(@)]
    /\ recs' = [recs EXCEPT ![p] = NoRec]
    /\ OnExit(p)
    /\ UNCHANGED <<killTimers, startCalls, monitoring, jobs,
                   jobsFile, jobsTimer, clonesFile, boots>>
    /\ UNCHANGED <<varsInteg, varsPipe>>

\* killProcess's 3000 ms timer fires: SIGKILL if the process still runs.
KillTimerFires(p) ==
    /\ p \in killTimers
    /\ killTimers' = killTimers \ {p}
    /\ IF IsProcessRunning(p)
       THEN /\ procs' = [procs EXCEPT ![p] = Ended(@)]
            /\ recs' = [recs EXCEPT ![p] = NoRec]
            /\ OnExit(p)
       ELSE UNCHANGED <<procs, recs, workers, pidFiles, clones, clonesTimer>>
    /\ UNCHANGED <<startCalls, monitoring, jobs, jobsFile,
                   jobsTimer, clonesFile, boots>>
    /\ UNCHANGED <<varsInteg, varsPipe>>

\* The child's one "ready" message arrives.
WorkerReady(p) ==
    /\ procs[p].state = "alive" /\ Attached(p) /\ ~procs[p].ready
    /\ procs' = [procs EXCEPT ![p].ready = TRUE]
    /\ recs' = [recs EXCEPT ![p].status = "running"]
    /\ UNCHANGED <<workers, pidFiles, killTimers, startCalls, monitoring,
                   varsStore>>
    /\ UNCHANGED <<varsInteg, varsPipe>>

\* A "heartbeat" message arrives: the interval is set after "ready" was
\* sent, and no heartbeat is sent once shutdown has begun.
WorkerHeartbeat(p) ==
    /\ procs[p].state = "alive" /\ Attached(p) /\ ~procs[p].term
    /\ procs[p].ready
    /\ recs' = [recs EXCEPT ![p].status = "running", ![p].age = 0]
    /\ UNCHANGED <<workers, pidFiles, procs, killTimers, startCalls,
                   monitoring, varsStore>>
    /\ UNCHANGED <<varsInteg, varsPipe>>

\* An "error" message arrives, or the child emits 'error'.
WorkerError(p) ==
    /\ procs[p].state = "alive" /\ Attached(p)
    /\ recs' = [recs EXCEPT ![p].status = "error"]
    /\ LET uc == UpdateCloneIn(clones, clonesTimer, procs[p].cloneId,
                     [NoData EXCEPT !.status = "failed",
                                    !.isRunning = "false"])
       IN  clones' = uc.map /\ clonesTimer' = uc.timer
    /\ UNCHANGED <<workers, pidFiles, procs, killTimers, startCalls,
                   monitoring, jobs, jobsFile, jobsTimer, clonesFile,
                   boots>>
    /\ UNCHANGED <<varsInteg, varsPipe>>

\* A monitor that marks every record whose heartbeat is too old, whatever
\* its status.
TimedOutAnyStatus ==
    {c \in StoreCloneIds :
        /\ workers[c] # 0
        /\ recs[workers[c]].age > HEARTBEAT_TIMEOUT}

\* The records the monitor marks: in the map, running, heartbeat too old.
TimedOut ==
    {c \in StoreCloneIds :
        /\ workers[c] # 0
        /\ recs[workers[c]].status = "running"
        /\ recs[workers[c]].age > HEARTBEAT_TIMEOUT}

\* A monitor that also signals the workers it marks.
MonitorTickKilling ==
    /\ monitoring
    /\ LET late == TimedOut IN
       /\ recs' = [p \in Pids |->
              IF \E c \in late : workers[c] = p
              THEN [recs[p] EXCEPT !.status = "error"] ELSE recs[p]]
       /\ clones' = [c \in StoreCloneIds |->
              IF c \in late /\ clones[c].status # "none"
              THEN UpdateClone(clones[c],
                       [NoData EXCEPT !.status = "failed",
                                      !.isRunning = "false"])
              ELSE clones[c]]
       /\ clonesTimer' = IF \E c \in late : clones[c].status # "none"
                         THEN ScheduleSave(clonesTimer) ELSE clonesTimer
       /\ procs' = [p \in Pids |->
              IF \E c \in late : workers[c] = p
              THEN [procs[p] EXCEPT !.term = TRUE] ELSE procs[p]]
    /\ UNCHANGED <<workers, pidFiles, killTimers, startCalls,
                   monitoring, jobs, jobsFile, jobsTimer, clonesFile,
                   boots>>
    /\ UNCHANGED <<varsInteg, varsPipe>>

\* The monitor interval fires.
MonitorTick ==
    /\ monitoring
    /\ LET late == TimedOut IN
       /\ recs' = [p \in Pids |->
              IF \E c \in late : workers[c] = p
              THEN [recs[p] EXCEPT !.status = "error"] ELSE recs[p]]
       /\ clones' = [c \in StoreCloneIds |->
              IF c \in late /\ clones[c].status # "none"
              THEN UpdateClone(clones[c],
                       [NoData EXCEPT !.status = "failed",
                                      !.isRunning = "false"])
              ELSE clones[c]]
       /\ clonesTimer' = IF \E c \in late : clones[c].status # "none"
                         THEN ScheduleSave(clonesTimer) ELSE clonesTimer
    /\ UNCHANGED <<workers, pidFiles, procs, killTimers, startCalls,
                   monitoring, jobs, jobsFile, jobsTimer, clonesFile,
                   boots>>
    /\ UNCHANGED <<varsInteg, varsPipe>>

\* One monitor interval of time passes: the records the map holds age.
ClockTick ==
    /\ \E c \in StoreCloneIds :
          workers[c] # 0 /\ recs[workers[c]].age <= HEARTBEAT_TIMEOUT
    /\ recs' = [p \in Pids |->
           IF (\E c \in StoreCloneIds : workers[c] = p)
              /\ recs[p].age <= HEARTBEAT_TIMEOUT
           THEN [recs[p] EXCEPT !.age = @ + 1] ELSE recs[p]]
    /\ UNCHANGED <<workers, pidFiles, procs, killTimers, startCalls,
                   monitoring, varsStore>>
    /\ UNCHANGED <<varsInteg, varsPipe>>

\* The manager as loaded, with the pid file and process an earlier server
\* process left for the demo clone: none, a live orphan, or a stale file.
WorkersAt(left) ==
    /\ workers = [c \in StoreCloneIds |-> 0]
    /\ recs = [p \in Pids |-> NoRec]
    /\ pidFiles = [c \in StoreCloneIds |->
           IF c = "demo-clones" /\ left # "none" THEN OrphanPid ELSE 0]
    /\ procs = [p \in Pids |->
           IF p = OrphanPid /\ left # "none"
           THEN [NoProc EXCEPT !.state =
                    IF left = "orphan" THEN "alive" ELSE "dead"]
           ELSE NoProc]
    /\ killTimers = {}
    /\ startCalls = [s \in StartIds |-> NoStart]
    /\ monitoring = FALSE

\* The clones file the manager's server process found: none, or one saved
\* while the demo clone was still training and marked running.
WorkerClonesFiles ==
    { MissingClonesFile,
      FileOf([NoClonesMap EXCEPT
                !["demo-clones"] = StoredClone("training", TRUE, "job-888")]) }

InitWorkers == \E left \in {"none", "orphan", "stale"} : WorkersAt(left)
QuietWorkers == WorkersAt("none")

NextWorker ==
    \/ \E s \in StartIds, c \in StoreCloneIds : StartCloneWorkerBegin(s, c)
    \/ \E s \in StartIds : StartCloneWorkerSlept(s)
    \/ \E s \in StartIds : StartCloneWorkerFork(s)
    \/ \E c \in StoreCloneIds : StopCloneWorker(c)
    \/ \E p \in Pids : ProcessExit(p)
    \/ \E p \in Pids : KillTimerFires(p)
    \/ \E p \in Pids : WorkerReady(p)
    \/ \E p \in Pids : WorkerHeartbeat(p)
    \/ \E p \in Pids : WorkerError(p)
    \/ MonitorTick
    \/ ClockTick

\* The first request to arrive.
FirstReq == CHOOSE r \in ReqIds : \A k \in ReqIds : r <= k

\* One training request whose stage processes write output chunks: the
\* training route with runLoggedProcess's 'data' handlers.
NextStageOutput ==
    \/ PostCreateJob(FirstReq)
    \/ \E r \in ReqIds : PostCreateClone(r)
    \/ \E r \in ReqIds : PostLinkAndRespond(r)
    \/ \E j \in JobIds : SimulateBegin(j)
    \/ \E j \in JobIds : SimulateFinish(j)
    \/ \E j \in JobIds : SimulateCloneReady(j)
    \/ \E j \in JobIds : RunPipelineBegin(j)
    \/ \E j \in JobIds : DatasetPipelineClose(j)
    \/ \E j \in JobIds : ReadKnowledgeStats(j)
    \/ \E j \in JobIds : CloneKnowledgeThenIndex(j)
    \/ \E j \in JobIds : RagIndexClose(j)
    \/ \E j \in JobIds : TrainClose(j)
    \/ \E j \in JobIds : RunPipelineSucceed(j)
    \/ \E j \in JobIds : RunPipelineCatch(j)
    \/ \E a \in ChunkIds, j \in JobIds, stream \in Streams :
          StageData(a, j, stream)
    \/ \E a \in ChunkIds : AppendLogSelect(a)
    \/ \E a \in ChunkIds : AppendLogUpdate(a)

\* The continuations of job j's runner (simulateJob or runPipeline): each
\* runs once the reply or the stage's close event it awaits has arrived.
PipelineStep(j) ==
    \/ SimulateBegin(j)
    \/ SimulateFinish(j)
    \/ SimulateCloneReady(j)
    \/ RunPipelineBegin(j)
    \/ DatasetPipelineClose(j)
    \/ ReadKnowledgeStats(j)
    \/ CloneKnowledgeThenIndex(j)
    \/ RagIndexClose(j)
    \/ TrainClose(j)
    \/ RunPipelineSucceed(j)
    \/ RunPipelineCatch(j)

\* The first output chunk of a stage process.
FirstChunk == CHOOSE a \in ChunkIds : \A k \in ChunkIds : a <= k

\* One training request in one server process, whose stage processes write
\* one chunk of output.
NextPipeline ==
    \/ PostCreateJob(FirstReq)
    \/ \E r \in ReqIds : PostCreateClone(r)
    \/ \E r \in ReqIds : PostLinkAndRespond(r)
    \/ \E j \in JobIds : SimulateBegin(j)
    \/ \E j \in JobIds : SimulateFinish(j)
    \/ \E j \in JobIds : SimulateCloneReady(j)
    \/ \E j \in JobIds : RunPipelineBegin(j)
    \/ \E j \in JobIds : DatasetPipelineClose(j)
    \/ \E j \in JobIds : ReadKnowledgeStats(j)
    \/ \E j \in JobIds : CloneKnowledgeThenIndex(j)
    \/ \E j \in JobIds : RagIndexClose(j)
    \/ \E j \in JobIds : TrainClose(j)
    \/ \E j \in JobIds : RunPipelineSucceed(j)
    \/ \E j \in JobIds : RunPipelineCatch(j)
    \/ \E j \in JobIds, stream \in Streams : StageData(FirstChunk, j, stream)
    \/ AppendLogSelect(FirstChunk)
    \/ AppendLogUpdate(FirstChunk)

\* One training request and one start call, with any number of stops: the
\* training route and the start/stop route of one server process.
FirstStart == CHOOSE s \in StartIds : \A k \in StartIds : s <= k

NextTrainAndStop ==
    \/ PostCreateJob(FirstReq)
    \/ \E r \in ReqIds : PostCreateClone(r)
    \/ \E r \in ReqIds : PostLinkAndRespond(r)
    \/ \E j \in JobIds : SimulateBegin(j)
    \/ \E j \in JobIds : SimulateFinish(j)
    \/ \E j \in JobIds : SimulateCloneReady(j)
    \/ \E j \in JobIds : RunPipelineBegin(j)
    \/ \E j \in JobIds : DatasetPipelineClose(j)
    \/ \E j \in JobIds : ReadKnowledgeStats(j)
    \/ \E j \in JobIds : CloneKnowledgeThenIndex(j)
    \/ \E j \in JobIds : RagIndexClose(j)
    \/ \E j \in JobIds : TrainClose(j)
    \/ \E j \in JobIds : RunPipelineSucceed(j)
    \/ \E j \in JobIds : RunPipelineCatch(j)
    \/ \E c \in StoreCloneIds : StartCloneWorkerBegin(FirstStart, c)
    \/ \E s \in StartIds : StartCloneWorkerSlept(s)
    \/ \E s \in StartIds : StartCloneWorkerFork(s)
    \/ \E c \in StoreCloneIds : StopCloneWorker(c)
    \/ \E p \in Pids : ProcessExit(p)
    \/ \E p \in Pids : KillTimerFires(p)

\* The workers of one server process and the messages they send, with no
\* stop and no monitor: a record's status is written by the message
\* handlers alone.
NextWorkerMessages ==
    \/ \E s \in StartIds, c \in StoreCloneIds : StartCloneWorkerBegin(s, c)
    \/ \E s \in StartIds : StartCloneWorkerSlept(s)
    \/ \E s \in StartIds : StartCloneWorkerFork(s)
    \/ \E p \in Pids : ProcessExit(p)
    \/ \E p \in Pids : KillTimerFires(p)
    \/ \E p \in Pids : WorkerReady(p)
    \/ \E p \in Pids : WorkerHeartbeat(p)
    \/ \E p \in Pids : WorkerError(p)

(***************************************************************************)
(* Integration store: properties                                           *)
(***************************************************************************)
\* The store file after the first n calls in lock order have been applied
\* one after another to the initial file; a call that has not saved (still
\* running, or failed) contributes nothing.
RECURSIVE AppliedInLockOrder(_)
AppliedInLockOrder(n) ==
    IF n = 0 THEN intFile0
    ELSE LET c == calls[lockOrder[n]]
             before == AppliedInLockOrder(n - 1)
         IN  IF c.pc = "done" THEN Modified(c, before, c.ts) ELSE before

\* C4: concurrent upsertIntegration calls are applied one after another in
\* lock-acquisition order and none is lost: the stored file always equals
\* the initial file with the saved calls applied sequentially in the order
\* in which they were granted the lock.
C4_NoLostUpdate == intFile = AppliedInLockOrder(Len(lockOrder))

\* Three upserts of (c1, telegram) overlapped, at least one queued behind
\* another waiter, all saved; the token update and the active update both
\* survive in an entry that did not exist before.
C4_Witness ==
    /\ intFile0["c1"] = <<>>
    /\ \A i \in CallIds :
          /\ calls[i].op = "upsert" /\ calls[i].pc = "done"
          /\ calls[i].cloneId = "c1" /\ calls[i].platform = "telegram"
    /\ \E i \in CallIds : calls[i].ahead >= 1
    /\ \E i, k \in CallIds :
          calls[i].data.token = "tokA" /\ calls[k].data.active = "true"
    /\ Len(intFile["c1"]) = 1
    /\ intFile["c1"][1].token = "tokA"
    /\ intFile["c1"][1].active = TRUE

\* C5: at most one store operation is between acquiring and releasing the
\* lock, the lock is held exactly then, and so no operation loads the file
\* while another one has loaded it and not yet saved.
C5_MutualExclusion ==
    /\ Cardinality(Holders) <= 1
    /\ locked = (Holders # {})
    /\ \A i, k \in CallIds :
          (i # k /\ calls[i].pc = "loaded") => calls[k].pc # "holding"

\* One operation has loaded the file and not saved yet while two others
\* have asked for the lock.
C5_Witness ==
    /\ \E i \in CallIds : calls[i].pc = "loaded"
    /\ Len(queue) >= 2

\* C6: the lock is granted in the order it was requested, and to a caller
\* only after every caller granted before it has released.
C6_LockFifo ==
    /\ Len(lockOrder) <= Len(reqOrder)
    /\ lockOrder = SubSeq(reqOrder, 1, Len(lockOrder))
    /\ \A n \in 1..(Len(lockOrder) - 1) :
          calls[lockOrder[n]].pc \in {"done", "failed"}

\* A caller that queued behind another waiter has been granted the lock.
C6_Witness ==
    \E i \in CallIds :
        calls[i].ahead >= 1 /\ calls[i].pc \in {"holding", "loaded", "done"}

\* C7: the lock is released on every exit path, so every caller waiting
\* for the lock is eventually granted it.
C7_EveryWaiterGranted ==
    \A i \in CallIds :
        (calls[i].pc = "waiting") ~> (calls[i].pc # "waiting")

\* An operation failed while holding the lock and the caller queued
\* behind it was granted the lock next.
C7_Witness ==
    \E n \in 1..(Len(lockOrder) - 1) :
        /\ calls[lockOrder[n]].pc = "failed"
        /\ calls[lockOrder[n + 1]].ahead >= 0

(***************************************************************************)
(* Job status and the stores' load: properties                             *)
(***************************************************************************)
\* The moves a job's status may make in one step.
LegalStatusStep(a, b) ==
    \/ a = b
    \/ a = "none" /\ b = "queued"
    \/ a = "queued" /\ b = "running"
    \/ a = "running" /\ b \in {"succeeded", "failed"}

LoadedClean ==
    /\ \A c \in StoreCloneIds : ~clones[c].isRunning
    /\ \A id \in StoreJobIds :
          jobsFile.state = "ok" /\ jobsFile.map[id].status = "running"
          => /\ jobs[id].status = "failed"
             /\ jobs[id].error = <<"Training interrupted by server restart">>

\* C2: whenever the stores are loaded from disk, at construction and at
\* every restart, every clone has isRunning = false and every job the file
\* holds as running is failed with the error 'Training interrupted by
\* server restart'.
C2_LoadSanitizes ==
    /\ LoadedClean
    /\ [][boots' # boots => LoadedClean']_vars

\* A restart has loaded a file that held a running job and a clone marked
\* running.
C2_Witness ==
    /\ boots > 0
    /\ \E id \in StoreJobIds :
          /\ jobsFile.state = "ok" /\ jobsFile.map[id].status = "running"
          /\ jobs[id].status = "failed"
    /\ \E c \in StoreCloneIds :
          /\ clonesFile.state = "ok" /\ clonesFile.map[c].isRunning
          /\ clones[c].status # "none" /\ ~clones[c].isRunning

(***************************************************************************)
(* Worker manager: properties                                              *)
(***************************************************************************)
\* C3: at most one worker exists per clone at any time: two worker
\* processes forked by the manager are never alive at once for the same
\* clone id, overlapping start calls included.
C3_OneWorkerPerClone ==
    \A c \in StoreCloneIds : Cardinality(LiveWorkers(c)) <= 1

(***************************************************************************)
(* Training pipeline: properties                                           *)
(***************************************************************************)
\* The stage of job j closed with a non-zero exit code.
StageFailed(j, label) == exits[j][label] \notin {NoExit, 0}

\* C8: if dataset_pipeline exits non-zero, neither rag_index nor
\* train_qlora is ever started for that job, and the pipeline ends with
\* the job failed.
C8_Stage1FailureStops ==
    \A j \in JobIds :
        StageFailed(j, "dataset_pipeline")
        => /\ started[j] = <<"dataset_pipeline">>
           /\ pipe[j].pc \in {"catch", "done", "aborted"}
           /\ pipe[j].pc = "done" => dbJobs[j].status = "failed"

\* A pipeline has ended after its first stage exited non-zero.
C8_Witness ==
    \E j \in JobIds :
        /\ exits[j]["dataset_pipeline"] = 2
        /\ pipe[j].pc = "done"
        /\ dbJobs[j].status = "failed"

C10_FatalFailureRecorded ==
    \A j \in JobIds : \A label \in FatalLabels :
        StageFailed(j, label) /\ pipe[j].pc = "done"
        => /\ dbJobs[j].status = "failed"
           /\ dbJobs[j].error = <<label, "exited with code", exits[j][label]>>

\* A pipeline has ended after train_qlora exited with code 2.
C10_Witness ==
    \E j \in JobIds :
        /\ exits[j]["train_qlora"] = 2
        /\ pipe[j].pc = "done"
        /\ dbJobs[j].error = <<"train_qlora", "exited with code", 2>>

\* The clone row createCloneRepo inserted for job j exists.
CloneOf(j) == {c \in DbCloneIds : dbClones[c].status # "none"
                                  /\ dbClones[c].jobId = j}

\* Every stage started for job j has closed with exit code 0.
AllStagesSucceeded(j) ==
    /\ started[j] # <<>>
    /\ \A k \in 1..Len(started[j]) : exits[j][started[j][k]] = 0

\* C11: a failed job always flips its linked clone to failed: once the
\* pipeline of a job that was created together with a clone has ended with
\* the job failed, that clone's status is failed.
C11_FailedJobFailsClone ==
    \A j \in JobIds : \A c \in CloneOf(j) :
        pipe[j].pc = "done" /\ dbJobs[j].status = "failed"
        => dbClones[c].status = "failed"

\* C12: on full success the job ends succeeded with processedDir,
\* knowledgeFile, ragIndexDir and adapterDir all populated, and the clone
\* created with that job ends with status ready.
C12_FullSuccess ==
    \A j \in JobIds :
        enableRealTrain /\ pipe[j].pc = "done" /\ AllStagesSucceeded(j)
        => /\ dbJobs[j].status = "succeeded"
           /\ dbJobs[j].processedDir # Null
           /\ dbJobs[j].knowledgeFile # Null
           /\ dbJobs[j].ragIndexDir # Null
           /\ dbJobs[j].adapterDir # Null
           /\ \A c \in CloneOf(j) : dbClones[c].status = "ready"

\* C13: once a pipeline whose first stage succeeded has finished, the
\* clone's knowledgeCount equals the job's knowledgeCount, which equals the
\* number of parseable knowledge records.
C13_KnowledgeCountOnBoth ==
    \A j \in JobIds : \A c \in CloneOf(j) :
        pipe[j].pc = "done" /\ exits[j]["dataset_pipeline"] = 0
        => /\ dbJobs[j].knowledgeCount = TotalChunks(pipe[j].kfile)
           /\ dbClones[c].knowledgeCount = dbJobs[j].knowledgeCount

(***************************************************************************)
(* Worker manager: start, stop, monitor and exit properties                *)
(***************************************************************************)
\* Call s returns from startCloneWorker in this step having forked.
StartReturns(s) ==
    startCalls[s].pc = "integrations" /\ startCalls'[s].pc = "returned"

\* Call s enters startCloneWorker for clone c in this step.
StartEnters(s, c) ==
    startCalls[s].pc = "idle" /\ startCalls'[s].pc # "idle"
    /\ startCalls'[s].cloneId = c

\* C14: given a pid file for the clone that names a live process and no
\* record in the map, start signals that process, goes on to spawn a new
\* worker, and when it returns the pid file holds the new worker's pid and
\* the map's record holds the same pid.
C14_StartReplacesOrphan ==
    [][\A s \in StartIds :
         /\ \A c \in StoreCloneIds :
               StartEnters(s, c) /\ workers[c] = 0 /\ pidFiles[c] # 0
               /\ IsProcessRunning(pidFiles[c])
               => /\ startCalls'[s].pc = "sleep"
                  /\ startCalls'[s].killed = pidFiles[c]
                  /\ procs'[pidFiles[c]].term
         /\ startCalls[s].pc = "sleep"
            => startCalls'[s].pc \in {"sleep", "integrations"}
         /\ StartReturns(s) /\ startCalls[s].killed # 0
            => LET c == startCalls[s].cloneId
                   new == pidFiles'[c]
               IN  /\ new # 0 /\ new # startCalls[s].killed
                   /\ workers'[c] = new
                   /\ procs[new].state = "unborn"
                   /\ procs'[new].state = "alive"
                   /\ procs'[new].cloneId = c]_vars

\* A start that found a live orphan has returned; the pid file and the map
\* name its new worker.
C14_Witness ==
    \E s \in StartIds :
        /\ startCalls[s].pc = "returned" /\ startCalls[s].killed = OrphanPid
        /\ pidFiles[startCalls[s].cloneId] > OrphanPid
        /\ workers[startCalls[s].cloneId] = pidFiles[startCalls[s].cloneId]

\* C15: on a monitor tick every worker in status running whose last
\* heartbeat is older than the timeout is set to error and its clone to
\* failed, while its process is not signalled or killed and its record and
\* pid file are kept; every other worker in the map is left unchanged.
C15_MonitorMarksTimedOut ==
    [][MonitorTick =>
         /\ procs' = procs /\ killTimers' = killTimers
         /\ workers' = workers /\ pidFiles' = pidFiles
         /\ \A c \in StoreCloneIds :
               workers[c] # 0 =>
                  IF recs[workers[c]].status = "running"
                     /\ recs[workers[c]].age > HEARTBEAT_TIMEOUT
                  THEN /\ recs'[workers[c]].status = "error"
                       /\ clones'[c].status = "failed"
                  ELSE /\ recs'[workers[c]] = recs[workers[c]]
                       /\ clones'[c] = clones[c]]_vars

\* A worker whose heartbeat is older than the timeout is marked error and
\* its clone failed, with its process alive and unsignalled and its record
\* and pid file in place.
C15_Witness ==
    \E c \in StoreCloneIds :
        /\ workers[c] # 0 /\ pidFiles[c] = workers[c]
        /\ recs[workers[c]].status = "error"
        /\ recs[workers[c]].age > HEARTBEAT_TIMEOUT
        /\ procs[workers[c]].state = "alive" /\ ~procs[workers[c]].term
        /\ procs[workers[c]].ready
        /\ clones[c].status = "failed"

\* C16: stop(c) when the map holds a record for c sends that worker
\* SIGTERM, and on return the map has no record for c, there is no pid
\* file for c and the clone's isRunning is false.
C16_StopTrackedWorker ==
    [][\A c \in StoreCloneIds :
         StopCloneWorker(c) /\ workers[c] # 0
         => /\ IsProcessRunning(workers[c]) => procs'[workers[c]].term
            /\ workers'[c] = 0
            /\ pidFiles'[c] = 0
            /\ ~clones'[c].isRunning
            /\ StopResult(c).ok]_vars

\* A tracked worker has been stopped: it has been signalled (by stop, which
\* sets no kill timer) and is still shutting down, and the map, the pid
\* file and the clone no longer show it.
C16_Witness ==
    \E c \in StoreCloneIds, p \in Pids :
        /\ procs[p].state = "alive" /\ procs[p].cloneId = c /\ Attached(p)
        /\ p # OrphanPid /\ procs[p].term /\ p \notin killTimers
        /\ workers[c] = 0 /\ pidFiles[c] = 0
        /\ clones[c].status # "none" /\ ~clones[c].isRunning

\* C17: stop(c) with no record in the map but a pid file naming a live
\* process terminates that process the way start's orphan path does
\* (SIGTERM now, SIGKILL from the timer if it is still running), removes
\* the pid file, sets the clone's isRunning to false and reports success.
C17_StopOrphan ==
    [][/\ \A c \in StoreCloneIds :
            StopCloneWorker(c) /\ workers[c] = 0 /\ pidFiles[c] # 0
            /\ IsProcessRunning(pidFiles[c])
            => /\ procs' = [procs EXCEPT ![pidFiles[c]].term = TRUE]
               /\ killTimers' = killTimers \cup {pidFiles[c]}
               /\ pidFiles'[c] = 0
               /\ workers'[c] = 0
               /\ ~clones'[c].isRunning
               /\ StopResult(c) = [ok |-> TRUE, wasOrphaned |-> TRUE]
       /\ \A p \in Pids :
            KillTimerFires(p) /\ IsProcessRunning(p)
            => procs'[p].state = "dead"]_vars

\* An orphan was stopped without any start call: it is signalled, its kill
\* timer is pending and its pid file is gone.
C17_Witness ==
    /\ \A s \in StartIds : startCalls[s].pc = "idle"
    /\ procs[OrphanPid].state = "alive" /\ procs[OrphanPid].term
    /\ OrphanPid \in killTimers
    /\ pidFiles["demo-clones"] = 0
    /\ ~clones["demo-clones"].isRunning

\* C18: when a worker process forked by the manager exits, for whatever
\* cause, afterwards the map has no record and there is no pid file for
\* its clone and the clone's isRunning is false; no process is started by
\* the exit, and a process only ever starts as the fork of a start call.
C18_ExitCleansUp ==
    [][\A p \in Pids :
         /\ procs[p].state = "alive" /\ procs'[p].state = "dead"
            /\ Attached(p)
            => /\ workers'[procs[p].cloneId] = 0
               /\ pidFiles'[procs[p].cloneId] = 0
               /\ ~clones'[procs[p].cloneId].isRunning
               /\ \A q \in Pids : procs'[q].state = "alive"
                                  => procs[q].state = "alive"
         /\ procs[p].state = "unborn" /\ procs'[p].state = "alive"
            => \E s \in StartIds :
                  StartReturns(s) /\ startCalls[s].cloneId = procs'[p].cloneId
      ]_vars

\* A worker the manager forked has exited and nothing has replaced it:
\* no record, no pid file, no live process for its clone.
C18_Witness ==
    \E p \in Pids \ {OrphanPid} :
        /\ procs[p].state = "dead"
        /\ workers[procs[p].cloneId] = 0
        /\ pidFiles[procs[p].cloneId] = 0
        /\ ~clones[procs[p].cloneId].isRunning
        /\ LiveWorkers(procs[p].cloneId) = {}

\* A process or pid file left by an earlier server process is still there:
\* the process runs unsignalled, or the pid file names a process this
\* manager did not fork.
Unswept ==
    \/ \E p \in Pids : procs[p].state = "alive" /\ ~Attached(p)
                       /\ ~procs[p].term
    \/ \E c \in StoreCloneIds : pidFiles[c] # 0 /\ ~Attached(pidFiles[c])

\* C19: startup orphan sweep: when the manager serves a start or stop
\* call, every pid file left by the earlier server process has already
\* been removed and every live process such a file named has already been
\* terminated.
C19_SweepBeforeServing ==
    [][(\/ \E s \in StartIds, c \in StoreCloneIds : StartEnters(s, c)
        \/ \E c \in StoreCloneIds : StopCloneWorker(c))
       => ~Unswept]_vars

(***************************************************************************)
(* Debounced persistence: properties                                       *)
(***************************************************************************)
\* What the history kept with a store's timeout must show at any time: a
\* burst has at most one write; once the window has passed since the last
\* mutation the timeout is due or has run; and once it has run the burst
\* has exactly one write.
BurstWrittenOnce(t) ==
    /\ t.writes <= 1
    /\ t.quiet >= SAVE_DEBOUNCE => t.left \in {-1, 0}
    /\ t.quiet >= SAVE_DEBOUNCE /\ t.left = -1 /\ t.writes # -1
       => t.writes = 1

\* A step of a store with timeout t, map mem and file f: a mutation
\* writes nothing and leaves a full window pending; the file is written
\* only by the timeout's callback, once the window has passed since the
\* last mutation, and with the map as the last mutation left it.
BurstSteps(t, tn, mem, memn, f, fn) ==
    /\ tn.muts > t.muts \/ tn.quiet < t.quiet
       => fn = f /\ tn.left = SAVE_DEBOUNCE
    /\ tn.writes > t.writes /\ t.writes # -1
       => /\ t.quiet >= SAVE_DEBOUNCE
          /\ memn = mem
          /\ fn \in {FileOf(mem), f}
    /\ fn # f => tn.writes > t.writes /\ tn.left = -1

\* C20: debounced persistence coalesces writes: a burst of mutations, each
\* following the previous one within the 500 ms window, produces exactly
\* one full-file write, made after the last mutation of the burst and
\* holding the in-memory state that mutation left; for the job store and
\* for the clone store.
C20_BurstWritesOnce ==
    /\ [](BurstWrittenOnce(jobsTimer) /\ BurstWrittenOnce(clonesTimer))
    /\ [][/\ BurstSteps(jobsTimer, jobsTimer', jobs, jobs',
                        jobsFile, jobsFile')
          /\ BurstSteps(clonesTimer, clonesTimer', clones, clones',
                        clonesFile, clonesFile')]_vars

\* A burst of at least two mutations of the clone store has ended with its
\* one write, and the file holds the map.
C20_Witness ==
    /\ clonesTimer.muts = 2 /\ clonesTimer.writes = 1
    /\ clonesTimer.left = -1
    /\ clonesFile = FileOf(clones)
    /\ jobsTimer.muts = 2 /\ jobsTimer.writes = 1

\* A step of a store's timeout from t to tn keeps the deadline of the write
\* that is pending: the time left until the write does not grow (-1: the
\* write was made, or the process and its unsaved mutations are gone).
DeadlineKept(t, tn) ==
    t.left # -1 => tn.left <= t.left

\* C21: debounced persistence has bounded staleness: a mutation is on disk
\* no later than one coalescing window after it was made, also when further
\* mutations keep arriving; that is, the write that a mutation scheduled one
\* window ahead is never put off by a later mutation.
C21_BoundedStaleness ==
    [][/\ DeadlineKept(jobsTimer, jobsTimer')
       /\ DeadlineKept(clonesTimer, clonesTimer')]_vars

Responds(r) ==
    reqs[r].pc # "responded" /\ reqs'[r].pc = "responded"

\* C23: the training trigger responds with the job id once the Job and the
\* Clone record exist and before the first stage process is started, and
\* the response does not depend on what becomes of the pipeline: when the
\* request is answered both rows exist and no stage of the job has been
\* started or has exited; a stage is only started for a job whose request
\* has been answered; and the answer (job id, clone id, "queued") stays
\* what it was while the pipeline runs to any of its ends.
C23_RespondsBeforeStages ==
    /\ [][\A r \in ReqIds :
            Responds(r)
            => LET j == reqs'[r].jobId
                   c == reqs'[r].cloneId IN
               /\ j \in JobIds /\ dbJobs'[j] # NoJobRow
               /\ c \in DbCloneIds /\ dbClones'[c] # NoCloneRow
               /\ dbClones'[c].jobId = j
               /\ started'[j] = <<>> /\ alive'[j] = {}
               /\ \A l \in StageLabels : exits'[j][l] = NoExit
               /\ PostResponse(r)' =
                     [jobId |-> j, cloneId |-> c, status |-> "queued",
                      simulated |-> ~enableRealTrain]]_vars
    /\ [][\A j \in JobIds :
            started'[j] # started[j]
            => \E r \in ReqIds :
                  reqs[r].pc = "responded" /\ reqs[r].jobId = j]_vars
    /\ [][\A r \in ReqIds :
            reqs[r].pc = "responded"
            => PostResponse(r)' = PostResponse(r)]_vars

\* Two requests got their answers; one job's pipeline has failed since and
\* the other's has succeeded.
C23_Witness ==
    \E r1, r2 \in ReqIds :
       /\ reqs[r1].pc = "responded" /\ reqs[r2].pc = "responded"
       /\ dbJobs[PostResponse(r1).jobId].status = "failed"
       /\ dbJobs[PostResponse(r2).jobId].status = "succeeded"
       /\ started[PostResponse(r2).jobId] # <<>>

\* The job's pipeline runner (runPipeline or simulateJob) has been called.
RunnerCalled(j) == pipe[j].pc # "idle"

\* C24: each Job id maps to exactly one pipeline runner invocation: every
\* training request mints a Job id no earlier request got (requests are
\* alike, so each is a re-submission of the one dataset), and no step
\* calls runPipeline or simulateJob for a Job id it was called for before.
C24_OneRunnerPerJob ==
    /\ [](\A r1, r2 \in ReqIds :
            r1 # r2 /\ reqs[r1].jobId # 0 /\ reqs[r2].jobId # 0
            => reqs[r1].jobId # reqs[r2].jobId)
    /\ [][\A r \in ReqIds :
            reqs[r].jobId = 0 /\ reqs'[r].jobId # 0
            => /\ reqs'[r].jobId \in JobIds
               /\ dbJobs[reqs'[r].jobId] = NoJobRow
               /\ ~RunnerCalled(reqs'[r].jobId)]_vars
    /\ [][\A j \in JobIds :
            /\ RunnerCalled(j)
               => pipe'[j].pc \notin {"idle", "rp_begin", "sim_begin"}
                  \/ pipe'[j] = pipe[j]
            /\ ~RunnerCalled(j) /\ RunnerCalled(j)'
               => /\ pipe'[j].pc \in {"rp_begin", "sim_begin"}
                  /\ started[j] = <<>>
                  /\ \E r \in ReqIds : Responds(r) /\ reqs[r].jobId = j]_vars

\* Every request has been answered and each one's own job has had its
\* runner called and has come to an end.
C24_Witness ==
    /\ \A r \in ReqIds : reqs[r].pc = "responded"
    /\ \A j \in JobIds :
          /\ RunnerCalled(j)
          /\ dbJobs[j].status \in {"succeeded", "failed"}
    /\ \E r1, r2 \in ReqIds : reqs[r1].jobId # reqs[r2].jobId

(***************************************************************************)
(* Worker manager: rejected starts, record status, frame of stop and start *)
(***************************************************************************)
\* C25: start(cloneId) called while the map holds a record for cloneId is
\* rejected ("Worker already running"): it forks no process, signals none
\* and arms no kill timer, and leaves the record, the pid file and the
\* Clone record (in memory and on disk) as they were.
C25_StartRejectedWhileTracked ==
    [][\A s \in StartIds, c \in StoreCloneIds :
         StartEnters(s, c) /\ WorkersHas(c)
         => /\ startCalls'[s].pc = "rejected"
            /\ procs' = procs /\ killTimers' = killTimers
            /\ workers' = workers /\ recs' = recs
            /\ pidFiles' = pidFiles
            /\ clones' = clones /\ clonesFile' = clonesFile
            /\ clonesTimer' = clonesTimer]_vars

\* A start was rejected and the worker the map tracks is still alive, with
\* its pid file.
C25_Witness ==
    \E s \in StartIds :
       /\ startCalls[s].pc = "rejected"
       /\ LET c == startCalls[s].cloneId IN
          /\ WorkersHas(c)
          /\ procs[workers[c]].state = "alive"
          /\ ~procs[workers[c]].term
          /\ pidFiles[c] = workers[c]

\* C26: the status of a WorkerRecord changes only along the transitions of
\* the per-clone state machine, starting -> running, running -> stopped and
\* running -> error: no step takes the record of a process from one status
\* to a different one by any other transition.
C26_StatusAlongMachine ==
    [][\A p \in Pids :
         /\ recs[p].status \in WorkerStatus
         /\ recs'[p].status \in WorkerStatus
         /\ recs'[p].status # recs[p].status
         => <<recs[p].status, recs'[p].status>> \in
               {<<"starting", "running">>, <<"running", "stopped">>,
                <<"running", "error">>}]_vars

\* C27: stopping a clone affects only its worker: stop(cloneId) signals
\* or cancels no pipeline stage process and leaves every Job record (the
\* jobs table and the job store) and every Clone's status and knowledge
\* fields (the clones table and the clone store) as they were, also while
\* a training pipeline is in flight.
C27_StopLeavesPipeline ==
    [][\A c \in StoreCloneIds :
         StopCloneWorker(c)
         => /\ alive' = alive /\ started' = started /\ exits' = exits
            /\ pipe' = pipe /\ reqs' = reqs
            /\ dbJobs' = dbJobs /\ dbClones' = dbClones
            /\ jobs' = jobs /\ jobsFile' = jobsFile
            /\ \A d \in StoreCloneIds :
                  /\ clones'[d].status = clones[d].status
                  /\ clones'[d].jobId = clones[d].jobId
                  /\ clones'[d].knowledgeCount = clones[d].knowledgeCount
                  /\ clones'[d].knowledgeFile = clones[d].knowledgeFile
                  /\ clones'[d].ragIndexDir = clones[d].ragIndexDir
                  /\ d # c => clones'[d] = clones[d]]_vars

\* A tracked worker has been stopped while a stage process of a training
\* pipeline is running: the worker was signalled, the stage was not.
C27_Witness ==
    \E j \in JobIds, p \in Pids :
       /\ pipe[j].pc \notin {"idle", "done", "failed", "aborted"}
       /\ alive[j] # {}
       /\ dbJobs[j].status = "running"
       /\ procs[p].state = "alive" /\ procs[p].term
       /\ workers[procs[p].cloneId] = 0
       /\ ~clones[procs[p].cloneId].isRunning

\* C28: Clone.isRunning is independent of Clone.status: the steps of
\* start(cloneId), stop(cloneId) and a worker's exit change no clone's
\* status, so a clone that is training or failed is still so after its
\* worker was started.
C28_StartStopKeepStatus ==
    [][(\/ \E s \in StartIds, c \in StoreCloneIds :
              StartCloneWorkerBegin(s, c)
        \/ \E s \in StartIds : StartCloneWorkerSlept(s)
        \/ \E s \in StartIds : StartCloneWorkerFork(s)
        \/ \E c \in StoreCloneIds : StopCloneWorker(c)
        \/ \E p \in Pids : ProcessExit(p)
        \/ \E p \in Pids : KillTimerFires(p))
       => \A d \in StoreCloneIds : clones'[d].status = clones[d].status]_vars

(***************************************************************************)
(* Job log and conditional indexing: properties                            *)
(***************************************************************************)
\* Sequence s is the beginning of sequence t.
IsPrefix(s, t) ==
    Len(s) <= Len(t) /\ \A i \in 1..Len(s) : s[i] = t[i]

\* C29: the Job log is append-only and complete, also when chunks arrive
\* concurrently: every chunk whose append has been carried out is in
\* Job.logs, and every step leaves the lines that were in Job.logs where
\* they were (the logs before are the beginning of the logs after).
C29_LogAppendOnly ==
    /\ [](\A a \in ChunkIds :
            appends[a].pc = "done"
            => \E i \in 1..Len(dbJobs[appends[a].jobId].logs) :
                  dbJobs[appends[a].jobId].logs[i] = appends[a].line)
    /\ [][\A j \in JobIds : IsPrefix(dbJobs[j].logs, dbJobs'[j].logs)]_vars

\* The indexing stage of job j has been started.
IndexStarted(j) ==
    \E i \in 1..Len(started[j]) : started[j][i] = "rag_index"

\* C30: the knowledge-indexing stage is conditional: its process is started
\* if and only if parsing exited 0 and the knowledge record file holds at
\* least one chunk; with zero chunks indexing is skipped and the adaptation
\* stage is started all the same.  The decision is one step of the runner,
\* taken only after parsing exited 0: it starts the indexing process when
\* the file read has chunks and the adaptation process when it has none,
\* and no other step starts an indexing process.
C30_IndexIffChunks ==
    /\ [](\A j \in JobIds :
            IndexStarted(j)
            => /\ exits[j]["dataset_pipeline"] = 0
               /\ TotalChunks(pipe[j].kfile) > 0)
    /\ [][\A j \in JobIds :
            /\ CloneKnowledgeThenIndex(j)
               => /\ exits[j]["dataset_pipeline"] = 0
                  /\ ~IndexStarted(j)
                  /\ started'[j] = Append(started[j],
                        IF TotalChunks(pipe[j].kfile) > 0
                        THEN "rag_index" ELSE "train_qlora")
                  /\ alive'[j] =
                        {IF TotalChunks(pipe[j].kfile) > 0
                         THEN "rag_index" ELSE "train_qlora"}
            /\ ~IndexStarted(j) /\ IndexStarted(j)'
               => CloneKnowledgeThenIndex(j)]_vars

\* One job's parsing left no chunk: the job went from parsing straight to
\* adaptation and succeeded; another job's parsing left chunks and its
\* index was built.
C30_Witness ==
    \E j1, j2 \in JobIds :
       /\ TotalChunks(pipe[j1].kfile) = 0
       /\ started[j1] = <<"dataset_pipeline", "train_qlora">>
       /\ dbJobs[j1].status = "succeeded"
       /\ TotalChunks(pipe[j2].kfile) > 0
       /\ started[j2] = <<"dataset_pipeline", "rag_index", "train_qlora">>

(***************************************************************************)
(* Stage order, output paths and termination: properties                   *)
(***************************************************************************)
\* C31: stages are strictly sequential: within one pipeline run the stage
\* processes are started in the order parsing, indexing, adaptation
\* (indexing may be left out), a stage is started only after the process of
\* every stage started before it has exited, and no two stage processes of
\* one job are alive at the same time.
C31_StagesSequential ==
    /\ [](\A j \in JobIds :
            /\ Cardinality(alive[j]) <= 1
            /\ started[j] \in
                  {<<>>, <<"dataset_pipeline">>,
                   <<"dataset_pipeline", "rag_index">>,
                   <<"dataset_pipeline", "train_qlora">>,
                   <<"dataset_pipeline", "rag_index", "train_qlora">>})
    /\ [][\A j \in JobIds :
            started'[j] # started[j]
            => /\ Len(started'[j]) = Len(started[j]) + 1
               /\ \A i \in 1..Len(started[j]) :
                     /\ started'[j][i] = started[j][i]
                     /\ exits'[j][started[j][i]] # NoExit
                     /\ started[j][i] \notin alive'[j]]_vars

\* A job's three stages have run one after the other and the last one is
\* still alive.
C31_Witness ==
    \E j \in JobIds :
       /\ started[j] = <<"dataset_pipeline", "rag_index", "train_qlora">>
       /\ alive[j] = {"train_qlora"}
       /\ exits[j]["dataset_pipeline"] = 0
       /\ exits[j]["rag_index"] # NoExit

\* C33: a Job's stage output paths are populated incrementally: the Job
\* holds processedDir and knowledgeFile only once parsing has exited 0,
\* ragIndexDir only once indexing has exited 0, and the adapter directory
\* of its run only once adaptation has exited 0; a Clone holds ragIndexDir
\* only once the indexing stage of its job has exited 0.  So after a failed
\* or skipped indexing stage neither carries a ragIndexDir.
C33_PathsAfterTheirStage ==
    /\ \A j \in JobIds :
          /\ dbJobs[j].processedDir # Null
             => exits[j]["dataset_pipeline"] = 0
          /\ dbJobs[j].knowledgeFile # Null
             => exits[j]["dataset_pipeline"] = 0
          /\ dbJobs[j].ragIndexDir # Null => exits[j]["rag_index"] = 0
          /\ dbJobs[j].adapterDir = "lora_adapter"
             => exits[j]["train_qlora"] = 0
    /\ \A c \in DbCloneIds :
          dbClones[c].ragIndexDir # Null
          => /\ dbClones[c].jobId \in JobIds
             /\ exits[dbClones[c].jobId]["rag_index"] = 0

(***************************************************************************)
(* Worker manager: orphans, messages and tracking: properties              *)
(***************************************************************************)
\* C32: in start's crash-recovery path the orphan is terminated before
\* start proceeds: at the step that forks the new worker, the process that
\* the old pid file named and that start signalled is no longer alive.
C32_OrphanGoneBeforeFork ==
    [][\A s \in StartIds :
         StartReturns(s) /\ startCalls[s].killed # 0
         => ~IsProcessRunning(startCalls[s].killed)]_vars

\* C34: the worker's messages follow the three-message protocol: ready is
\* sent once, heartbeats are sent until shutdown begins, and error is
\* terminal.  Ready is the worker's first message, and with the message
\* handlers as the only writers of a record's status, status error after
\* ready means that the worker's last message was an error: no ready
\* arrives from a worker that has sent ready, and no heartbeat from a
\* worker that is shutting down or whose last message was an error.
C34_ErrorIsLastMessage ==
    [][\A p \in Pids :
         /\ WorkerReady(p) => ~procs[p].ready
         /\ WorkerHeartbeat(p)
            => /\ procs[p].ready /\ ~procs[p].term
               /\ recs[p].status # "error"]_vars

\* C35: no live worker is ever untracked: every process this manager
\* forked that is alive and has not been signalled is named by the map's
\* record or by the pid file of its clone, whatever the interleaving of
\* start, stop and exit events.
C35_LiveWorkerTracked ==
    \A p \in Pids :
       procs[p].state = "alive" /\ Attached(p) /\ ~procs[p].term
       => \/ workers[procs[p].cloneId] = p
          \/ pidFiles[procs[p].cloneId] = p

\* C36: whenever the map holds a record with status running for a clone,
\* that Clone has isRunning = true, for any sequence of ready, heartbeat and
\* error messages and monitor ticks.
C36_RunningRecordMeansIsRunning ==
    \A c \in StoreCloneIds :
       workers[c] # 0 /\ recs[workers[c]].status = "running"
       => clones[c].isRunning

\* C37: the heartbeat monitor changes only workers in status running: on a
\* monitor tick every record that is not running and its clone are left as
\* they were, and a worker in status starting whose clone has isRunning =
\* true is still so after any monitor tick and any amount of time, however
\* old its lastHeartbeat is.
C37_MonitorLeavesStarting ==
    [][MonitorTick \/ ClockTick =>
         \A c \in StoreCloneIds :
            workers[c] # 0 /\ recs[workers[c]].status # "running" =>
               /\ workers'[c] = workers[c]
               /\ recs'[workers[c]].status = recs[workers[c]].status
               /\ clones'[c] = clones[c]
               /\ procs'[workers[c]] = procs[workers[c]]]_vars

\* A worker that has sent nothing is still starting, alive and with its
\* clone's isRunning = true, when its record is older than the timeout and
\* the monitor is ticking.
C37_Witness ==
    \E c \in StoreCloneIds :
        /\ monitoring /\ workers[c] # 0
        /\ recs[workers[c]].status = "starting"
        /\ recs[workers[c]].age > HEARTBEAT_TIMEOUT
        /\ procs[workers[c]].state = "alive" /\ ~procs[workers[c]].ready
        /\ clones[c].isRunning

UniquePerPlatform(store) ==
    \A c \in IntClones :
       \A i, k \in 1..Len(store[c]) :
          store[c][i].platform = store[c][k].platform => i = k

\* C38: integration entries stay unique per key: the file starts with at
\* most one entry per (cloneId, platform), and after any number and
\* interleaving of upsertIntegration calls every clone's list in the file,
\* and every list a call returns, holds at most one entry per platform.
C38_OneEntryPerPlatform ==
    /\ UniquePerPlatform(intFile)
    /\ \A i \in CallIds :
          calls[i].op = "upsert" /\ calls[i].pc = "done"
          => \A a, b \in 1..Len(calls[i].result) :
                calls[i].result[a].platform = calls[i].result[b].platform
                => a = b

\* Two upserts of one (cloneId, platform) have completed on a file that
\* started without that entry: the first pushed it, the second found it.
C38_Witness ==
    \E i, k \in CallIds :
        /\ i # k
        /\ calls[i].op = "upsert" /\ calls[i].pc = "done"
        /\ calls[k].op = "upsert" /\ calls[k].pc = "done"
        /\ calls[i].cloneId = calls[k].cloneId
        /\ calls[i].platform = calls[k].platform
        /\ calls[i].ts < calls[k].ts
        /\ FindPlatform(intFile0[calls[i].cloneId], calls[i].platform) = 0
        /\ FindPlatform(intFile[calls[k].cloneId], calls[k].platform) # 0
        /\ intFile[calls[k].cloneId] = calls[k].result

\* C39: upsertIntegration(cloneId, platform, data) changes nothing but the
\* (cloneId, platform) entry: when its save completes every other clone's
\* list is the same in the file as before, every other platform's entry
\* of that clone is the same and in the same place, and when the entry
\* existed a field absent from data (active or token) keeps its value.
C39_UpsertFrame ==
    [][\A i \in CallIds :
         MutatorSave(i) /\ calls[i].op = "upsert" =>
            LET c == calls[i].cloneId
                idx == FindPlatform(intFile[c], calls[i].platform)
            IN  /\ \A o \in IntClones \ {c} : intFile'[o] = intFile[o]
                /\ Len(intFile'[c])
                      = Len(intFile[c]) + (IF idx = 0 THEN 1 ELSE 0)
                /\ \A n \in 1..Len(intFile[c]) :
                      n # idx => intFile'[c][n] = intFile[c][n]
                /\ idx # 0 =>
                      /\ intFile'[c][idx].platform = calls[i].platform
                      /\ calls[i].data.active = "undef" =>
                            intFile'[c][idx].active = intFile[c][idx].active
                      /\ calls[i].data.token = "undef" =>
                            intFile'[c][idx].token = intFile[c][idx].token
                /\ idx = 0 =>
                      intFile'[c][Len(intFile[c]) + 1].platform
                         = calls[i].platform]_vars

\* An upsert that names no token has rewritten an existing entry that had
\* one, in a list with another platform's entry and next to another
\* clone's non-empty list.
C39_Witness ==
    \E i \in CallIds :
        LET c == calls[i].cloneId
            idx == FindPlatform(intFile[c], calls[i].platform)
        IN  /\ calls[i].op = "upsert" /\ calls[i].pc = "done"
            /\ calls[i].data.token = "undef"
            /\ calls[i].data.active # "undef"
            /\ idx # 0
            /\ intFile[c][idx].updatedAt = calls[i].ts
            /\ intFile[c][idx].token \notin {"undef"}
            /\ Len(intFile[c]) > 1
            /\ \E o \in IntClones \ {c} :
                  intFile[o] # <<>> /\ intFile[o] = intFile0[o]

(***************************************************************************)
(* Specifications                                                          *)
(***************************************************************************)
\* The integration store under any number of overlapping callers.
IntegInit == QuietPipe /\ QuietStores /\ QuietWorkers /\ InitInteg
SpecInteg == IntegInit /\ [][NextInteg]_vars

\* Every continuation whose I/O has completed is run by the event loop.
SpecIntegLive == SpecInteg /\ WF_vars(IntegProgress)

\* The training route and its pipelines, across server restarts over a
\* jobs file that holds a running job.
PipeInit ==
    /\ QuietInteg /\ QuietWorkers /\ InitPipe
    /\ StoresAt(InterruptedJobsFile, MissingClonesFile)
Spec == PipeInit /\ [][NextPipe]_vars

\* The training route in a server process that stays up: the event loop
\* runs every continuation whose awaited reply or close event has arrived,
\* and every stage process exits.
SpecPipelineLive ==
    /\ PipeInit /\ [][NextPipeline]_vars
    /\ \A j \in JobIds : WF_vars(PipelineStep(j))

\* The record stores under knowledge updates, flushes and restarts.
StoreInit == QuietInteg /\ QuietPipe /\ QuietWorkers /\ InitStores
SpecStore == StoreInit /\ [][NextStores]_vars

\* The stores with forceSave called at any time.
SpecForceSave == StoreInit /\ [][NextForceSave]_vars

\* The worker manager over the clone store.
WorkerInit ==
    /\ QuietInteg /\ QuietPipe /\ InitWorkers
    /\ \E cf \in WorkerClonesFiles : StoresAt(MissingJobsFile, cf)
SpecWorker == WorkerInit /\ [][NextWorker]_vars

\* The worker manager with the messages of its workers only.
SpecWorkerMessages == WorkerInit /\ [][NextWorkerMessages]_vars

\* A training pipeline in flight next to the worker manager.
TrainAndStopInit ==
    /\ QuietInteg /\ InitPipe /\ InitWorkers
    /\ \E cf \in WorkerClonesFiles : StoresAt(InterruptedJobsFile, cf)
\* A training pipeline with the output of its stage processes.
SpecStageOutput == PipeInit /\ [][NextStageOutput]_vars

SpecTrainAndStop == TrainAndStopInit /\ [][NextTrainAndStop]_vars

====
